---- MODULE Spec2Model ----
(***************************************************************************)
(* A model of the screenshot-extraction pipeline of uma-tools:             *)
(*   - TemplateBasedImageParser (src/unnamed/part_001): handleFileSelect,  *)
(*     the per-template scale search, calibration, region projection, OCR  *)
(*     and field parsing;                                                  *)
(*   - the skill resolver of the app (src/unnamed/part_000):               *)
(*     findMatchingSkills, findMatchingSkill, fuzzyMatch and the tier      *)
(*     bonus.                                                              *)
(*                                                                         *)
(* Strings are sequences of one-character strings.  Numbers that are not   *)
(* integers (similarities, scales, offsets) are IEEE doubles, as in the    *)
(* program: every operation rounds as the double operation does (see       *)
(* Doubles).                                                               *)
(***************************************************************************)
EXTENDS Integers, Sequences, FiniteSets, TLC

VARIABLES
    \* ---- skill resolver (findMatchingSkills) ----
    skillnames,      \* the catalog, as Object.entries(skillnames) yields it
    parsedSkills,    \* the input lines
    skillIdx,        \* the loop variable i of findMatchingSkills (0-based)
    matchedSkills,   \* the result being built
    resolved,        \* history: for each visited line, the id it resolved to
    skillPc,         \* "off" | "loop" | "returned"
    \* ---- tier bonus (lines 814-836 of findMatchingSkill, one candidate) ----
    tierName,        \* the candidate display name
    tierLine,        \* the recognised line
    tierBase,        \* similarity before the adjustment
    tierResult,      \* similarity after the adjustment
    tierPc,          \* "off" | "in" | "scored" | "skipped"
    \* ---- handleFileSelect (one invocation) ----
    pc,              \* where the handler is suspended
    image,           \* uploadedImage: [width, height]
    changeMatch,     \* result of findBestTemplateMatch(.., 'change')
    headersMatch,    \* result of findBestTemplateMatch(.., 'headers')
    pending,         \* position of the region whose ocrRegion promise is awaited
    cropped,         \* the regions handed to extractRegion and ocrRegion
    extractedData,   \* region name -> recognised text
    faults,          \* OCR results so far that were not the clean text
    lastParsedData,  \* the record handed to setLastParsedData / onDataParsed
    onDataParsedCalls, \* number of calls of onDataParsed by this call of handleFileSelect
    errors,          \* the messages this call of handleFileSelect handed to onError, in order
    isProcessing,    \* component state
    processingStage, \* component state
    progress,        \* component state
    fakeProgressInterval, \* fakeProgressInterval.current: an interval id, or NoInterval
    intervals,       \* the ids of the intervals of the window that are set and not cleared
    \* ---- findBestTemplateMatch (the scale search) ----
    searchImage,     \* image: [width, height]
    searchTemplate,  \* template: [width, height]
    minScale,
    maxScale,
    stepCount,
    bestMatch,
    bestConfidence,
    matsDeleted,     \* imageMat and templateMat were deleted
    searchResult,    \* the value the promise resolved with
    searchPc,        \* "off" | "searching" | "resolved"
    firstBest,       \* history: the first probe evaluated with the highest confidence
    \* ---- one call of a function (parseStat, generateSkillRegions, ...) ----
    fnArgs,          \* the arguments
    fnResult,        \* the value returned
    fnPc             \* "off" | "in" | the name of the function that returned

skillVars == <<skillnames, parsedSkills, skillIdx, matchedSkills, resolved, skillPc>>
tierVars == <<tierName, tierLine, tierBase, tierResult, tierPc>>
runVars == <<pc, image, changeMatch, headersMatch, pending, cropped, extractedData,
             faults, lastParsedData, onDataParsedCalls, errors, isProcessing,
             processingStage, progress, fakeProgressInterval, intervals>>
searchVars == <<searchImage, searchTemplate, minScale, maxScale, stepCount, bestMatch,
                bestConfidence, matsDeleted, searchResult, searchPc, firstBest>>
fnVars == <<fnArgs, fnResult, fnPc>>
vars == <<skillVars, tierVars, runVars, searchVars, fnVars>>

-----------------------------------------------------------------------------
(* Bounds of the model *)

\* longest sequence of skill lines handed to findMatchingSkills
MaxLines == 2
\* longest letter stem of the strings the tier bonus is applied to
MaxStem == 2
\* most OCR results of one run that are not the clean text of their region
MaxFaults == 1
\* most ticks of the progress timer that are followed in one run
MaxTicks == 1
\* longest recognised text handed to parseStat and parseAptitude
MaxText == 5
\* most skill lines of one call of findMatchingSkills when the order of its
\* output is followed
MaxOrderLines == 3
\* longest string handed to calculateSimilarity
MaxSimilarityLen == 3

-----------------------------------------------------------------------------
(* Rationals: the numbers the claims state, to compare doubles with *)

Rat(n, d) == <<n, d>>
RatLT(a, b) == a[1] * b[2] < b[1] * a[2]
RatLE(a, b) == a[1] * b[2] <= b[1] * a[2]
RatEQ(a, b) == a[1] * b[2] = b[1] * a[2]
RatAdd(a, b) == <<a[1] * b[2] + b[1] * a[2], a[2] * b[2]>>
RatSub(a, b) == <<a[1] * b[2] - b[1] * a[2], a[2] * b[2]>>
RatMin(a, b) == IF RatLT(b, a) THEN b ELSE a
RatMax(a, b) == IF RatLT(a, b) THEN b ELSE a
Zero == Rat(0, 1)
One == Rat(1, 1)

-----------------------------------------------------------------------------
(* Doubles                                                                  *)
(* Every number of the program is an IEEE double.  A double is written as   *)
(* a record [value, den, error]: value / den is the number the computation  *)
(* yields without rounding, and error, in units of                          *)
(* 1 / (OddPart(den) * 2^ErrorBits), is what the roundings of the double     *)
(* operations so far have added to it.  The double is, exactly,             *)
(* value / den + error / (OddPart(den) * 2^ErrorBits).                       *)

ErrorBits == 64

RECURSIVE OddPart(_)
OddPart(n) == IF n % 2 = 0 THEN OddPart(n \div 2) ELSE n

RECURSIVE TwoBits(_)
TwoBits(n) == IF n % 2 = 0 THEN 1 + TwoBits(n \div 2) ELSE 0

\* the element of a set of one element; {F(x) : x \in {e}} computes e once
\* however often F uses x
Only(S) == CHOOSE x \in S : TRUE

\* 2^j modulo odd
RECURSIVE Pow2Mod(_, _)
Pow2Mod(j, odd) ==
    IF j = 0 THEN 1 % odd
    ELSE IF j % 2 = 0 THEN (Pow2Mod(j \div 2, odd)^2) % odd
    ELSE (2 * Pow2Mod(j - 1, odd)) % odd

\* the binary exponent k of a / den, a > 0: 2^k <= a / den < 2^(k + 1)
BinadeOf(den, a) ==
    IF a >= den
    THEN CHOOSE k \in 0..12 : den * 2^k <= a /\ a < den * 2^(k + 1)
    ELSE 0 - (CHOOSE j \in 1..12 : a * 2^j >= den /\ a * 2^(j - 1) < den)

IsPowerOfTwo(den, a, k) ==
    IF k >= 0 THEN a = den * 2^k ELSE a * 2^(0 - k) = den

\* the binary exponent of a / den plus the error e, k being that of a / den:
\* a power of two with a negative error lies in the binade below
BinadeAt(den, a, e, k) ==
    IF IsPowerOfTwo(den, a, k) /\ e < 0 THEN k - 1 ELSE k

Binade(den, a, e) == BinadeAt(den, a, e, BinadeOf(den, a))

\* one unit in the last place (2^(k - 52)) of binade k, in units of the
\* error; odd is OddPart(den) and two is TwoBits(den)
Ulp(odd, k) == odd * 2^(ErrorBits + k - 52)

\* a / den modulo one unit in the last place of binade k, in units of the
\* error
LowBits(odd, two, a, k) ==
    2^(ErrorBits + k - 52) * (((a % odd) * Pow2Mod(52 - k - two, odd)) % odd)

\* round to nearest, ties to even: r is what lies above the double below
Nearest(e, r, ulp, low2) ==
    IF 2 * r < ulp THEN e - r
    ELSE IF 2 * r > ulp THEN e - r + ulp
    ELSE IF ((low2 + e - r) % (2 * ulp)) = ulp THEN e - r + ulp ELSE e - r

RoundBinade(odd, two, a, e, k) ==
    IF ErrorBits + k - 52 < 0 THEN e
    ELSE Only({Nearest(e, (low + e) % ulp, ulp, low2) :
                  ulp \in {Ulp(odd, k)},
                  low \in {LowBits(odd, two, a, k)},
                  low2 \in {LowBits(odd, two, a, k + 1)}})

RoundMagnitude(den, a, e) ==
    Only({RoundBinade(odd, two, a, e, k) :
             odd \in {OddPart(den)}, two \in {TwoBits(den)}, k \in {Binade(den, a, e)}})

\* the error of the double nearest to value / den plus error
RoundErr(den, value, error) ==
    IF value = 0 THEN error
    ELSE IF value < 0 THEN -RoundMagnitude(den, -value, -error)
    ELSE RoundMagnitude(den, value, error)

Double(value, den, error) == [value |-> value, den |-> den, error |-> error]

\* value / den, for a number that is a double
Exact(value, den) == Double(value, den, 0)

\* the double nearest to value / den plus error
Rounded(value, den, error) ==
    Only({Double(v, den, RoundErr(den, v, e)) : v \in {value}, e \in {error}})

\* the double nearest to value / den: a literal, or the quotient of two
\* integers
Literal(value, den) == Rounded(value, den, 0)

\* p + q, p - q, k * p for an integer k, p / 2 and p * 0.25 (p and q with the
\* same den)
DAdd(p, q) ==
    Only({Rounded(a.value + b.value, a.den, a.error + b.error) : a \in {p}, b \in {q}})
DSub(p, q) ==
    Only({Rounded(a.value - b.value, a.den, a.error - b.error) : a \in {p}, b \in {q}})
DTimes(k, p) ==
    Only({Rounded(k * a.value, a.den, k * a.error) : a \in {p}})
DHalf(p) == Only({Double(a.value \div 2, a.den, a.error \div 2) : a \in {p}})
DQuarter(p) == Only({Double(a.value \div 4, a.den, a.error \div 4) : a \in {p}})

\* p < q and p === q
DLess(p, q) ==
    IF p.den = q.den
    THEN p.value < q.value \/ (p.value = q.value /\ p.error < q.error)
    ELSE \/ p.value * q.den < q.value * p.den
         \/ /\ p.value * q.den = q.value * p.den
            /\ p.error * OddPart(q.den) < q.error * OddPart(p.den)
DEq(p, q) == ~DLess(p, q) /\ ~DLess(q, p)

\* Math.min(p, q) and Math.max(p, q)
DMin(p, q) == IF DLess(q, p) THEN q ELSE p
DMax(p, q) == IF DLess(p, q) THEN q ELSE p

\* the number a double stands for when no operation rounds
Nominal(p) == Rat(p.value, p.den)

\* the literal tenths / 10 as a double with the den of p
Tenths(tenths, p) == Literal(tenths * (p.den \div 10), p.den)

-----------------------------------------------------------------------------
(* Characters and the String methods the code uses *)

UpperChars == <<"A","B","C","D","E","F","G","H","I","J","K","L","M",
                "N","O","P","Q","R","S","T","U","V","W","X","Y","Z">>
LowerChars == <<"a","b","c","d","e","f","g","h","i","j","k","l","m",
                "n","o","p","q","r","s","t","u","v","w","x","y","z">>
DigitChars == <<"0","1","2","3","4","5","6","7","8","9">>

Range(s) == {s[k] : k \in 1..Len(s)}

\* \s of a JavaScript regular expression, as far as the model's texts go
IsSpace(c) == c \in {" ", "\n", "\t"}
UpperSet == Range(UpperChars)
WordChars == Range(UpperChars) \cup Range(LowerChars) \cup Range(DigitChars) \cup {"_"}
\* \w of a JavaScript regular expression without the u flag: [A-Za-z0-9_]
IsWord(c) == c \in WordChars

LowerOf == [c \in UpperSet |-> LowerChars[CHOOSE k \in 1..Len(UpperChars) : UpperChars[k] = c]]

\* String.prototype.toLowerCase, one character
ToLowerChar(c) == IF c \in UpperSet THEN LowerOf[c] ELSE c

toLowerCase(s) == [k \in 1..Len(s) |-> ToLowerChar(s[k])]

\* String.prototype.trim
trim(s) ==
    LET keep == {k \in 1..Len(s) : ~IsSpace(s[k])}
    IN  IF keep = {} THEN <<>>
        ELSE LET lo == CHOOSE k \in keep : \A m \in keep : k <= m
                 hi == CHOOSE k \in keep : \A m \in keep : m <= k
             IN  SubSeq(s, lo, hi)

\* s.replace(/[^\w\s]/g, '')
StripNonWord(s) == SelectSeq(s, LAMBDA c : IsWord(c) \/ IsSpace(c))

\* String.prototype.includes
includes(s, t) ==
    \E k \in 0..(Len(s) - Len(t)) : SubSeq(s, k + 1, k + Len(t)) = t

\* String.prototype.endsWith
endsWith(s, t) ==
    Len(t) <= Len(s) /\ SubSeq(s, Len(s) - Len(t) + 1, Len(s)) = t

-----------------------------------------------------------------------------
(* Skill resolver: pure functions *)

normalizeString(s) == trim(StripNonWord(toLowerCase(s)))

Min3(a, b, c) ==
    IF a <= b /\ a <= c THEN a ELSE IF b <= c THEN b ELSE c

\* row i of the matrix, filled column by column (the inner loop, lines
\* 758-768); row and prev hold matrix[i][0..] and matrix[i-1][0..]
RECURSIVE FillRow(_, _, _, _)
FillRow(prev, ch, str1, row) ==
    IF Len(row) > Len(str1) THEN row
    ELSE LET j == Len(row)
             cell == IF ch = str1[j] THEN prev[j]
                     ELSE Min3(prev[j] + 1, row[j] + 1, prev[j + 1] + 1)
         IN  FillRow(prev, ch, str1, Append(row, cell))

\* the rows of the matrix from row i on (the outer loop, line 757)
RECURSIVE FillMatrix(_, _, _, _)
FillMatrix(str1, str2, i, prev) ==
    IF i > Len(str2) THEN prev
    ELSE FillMatrix(str1, str2, i + 1, FillRow(prev, str2[i], str1, <<i>>))

levenshteinDistance(str1, str2) ==
    LET firstRow == [j \in 1..(Len(str1) + 1) |-> j - 1]
        lastRow == FillMatrix(str1, str2, 1, firstRow)
    IN  lastRow[Len(str1) + 1]

\* a variant of calculateSimilarity that takes str1 for the longer string
\* whatever the lengths are
calculateSimilarity_FirstIsLonger(str1, str2) ==
    IF Len(str1) = 0 THEN Exact(10, 10)
    ELSE Literal(10 * (Len(str1) - levenshteinDistance(str1, str2)), 10 * Len(str1))

calculateSimilarity(str1, str2) ==
    LET longer == IF Len(str1) > Len(str2) THEN str1 ELSE str2
        shorter == IF Len(str1) > Len(str2) THEN str2 ELSE str1
    IN  IF Len(longer) = 0 THEN Exact(10, 10)
        ELSE Literal(10 * (Len(longer) - levenshteinDistance(longer, shorter)),
                     10 * Len(longer))

\* the threshold of fuzzyMatch (0.7) and of findMatchingSkill (0.6)
FuzzyThreshold == Literal(7, 10)
MatchThreshold == Literal(6, 10)

fuzzyMatch(str1, str2) ==
    LET n1 == normalizeString(str1)
        n2 == normalizeString(str2)
    IN  \/ includes(n1, n2)
        \/ includes(n2, n1)
        \/ DLess(FuzzyThreshold, calculateSimilarity(n1, n2))

\* the characters of /[◎○×©®™]/ ("TM" stands for the trademark sign U+2122)
TierGlyphs == {"◎", "○", "×", "©", "®", "TM"}
\* null, where a tier symbol is expected
NoTier == "null"

extractTierSymbol(text) ==
    LET hits == {k \in 1..Len(text) : text[k] \in TierGlyphs}
    IN  IF hits # {} THEN text[CHOOSE k \in hits : \A m \in hits : k <= m]
        ELSE IF endsWith(trim(text), <<" ", "O">>) THEN "○"
        ELSE IF "©" \in Range(text) THEN "©"
        ELSE NoTier

tierMap ==
    [t \in TierGlyphs |->
        CASE t = "◎" -> {"○", "©", "®", "TM"}
          [] t = "○" -> {"◎", "©", "®", "TM"}
          [] t = "×" -> {"×"}
          [] OTHER -> {"◎", "○"}]

\* a variant of isTierCompatible in which no two tiers are compatible
isTierCompatible_Never(skillTier, parsedTier) == FALSE

isTierCompatible(skillTier, parsedTier) ==
    skillTier \in DOMAIN tierMap /\ parsedTier \in tierMap[skillTier]

\* 0.5, 0.3 and 0.2, in tenths
ExactTierBonus == 5
CompatibleTierBonus == 3
TierPenalty == 2

\* 1.0 and 0.0 as doubles with the den of p
OneLike(p) == Exact(p.den, p.den)
ZeroLike(p) == Exact(0, p.den)

\* a variant of applyTierMatchingBonus whose penalty is not floored at 0
applyTierMatchingBonus_NoFloor(skillName, parsedSkill, baseSimilarity) ==
    LET hasTierVariants == Range(skillName) \cap {"◎", "○", "×"} # {}
        skillTier == extractTierSymbol(skillName)
        parsedTier == extractTierSymbol(parsedSkill)
    IN  IF ~hasTierVariants THEN baseSimilarity
        ELSE IF skillTier # NoTier /\ parsedTier # NoTier
        THEN IF skillTier = parsedTier
             THEN DAdd(baseSimilarity, Tenths(ExactTierBonus, baseSimilarity))
             ELSE IF isTierCompatible(skillTier, parsedTier)
             THEN DMin(OneLike(baseSimilarity),
                       DAdd(baseSimilarity, Tenths(CompatibleTierBonus, baseSimilarity)))
             ELSE DSub(baseSimilarity, Tenths(TierPenalty, baseSimilarity))
        ELSE baseSimilarity

applyTierMatchingBonus(skillName, parsedSkill, baseSimilarity) ==
    LET hasTierVariants == Range(skillName) \cap {"◎", "○", "×"} # {}
        skillTier == extractTierSymbol(skillName)
        parsedTier == extractTierSymbol(parsedSkill)
    IN  IF ~hasTierVariants THEN baseSimilarity
        ELSE IF skillTier # NoTier /\ parsedTier # NoTier
        THEN IF skillTier = parsedTier
             THEN DAdd(baseSimilarity, Tenths(ExactTierBonus, baseSimilarity))
             ELSE IF isTierCompatible(skillTier, parsedTier)
             THEN DMin(OneLike(baseSimilarity),
                       DAdd(baseSimilarity, Tenths(CompatibleTierBonus, baseSimilarity)))
             ELSE DMax(ZeroLike(baseSimilarity),
                       DSub(baseSimilarity, Tenths(TierPenalty, baseSimilarity)))
        ELSE baseSimilarity

\* null, where a skill id is expected
NoSkill == <<>>

\* skillId.startsWith('10')
StartsWith10(skillId) == Len(skillId) >= 2 /\ skillId[1] = "1" /\ skillId[2] = "0"

\* a variant of InPool with the two pools exchanged
InPool_Swapped(skillId, isUniqueSkill) ==
    IF isUniqueSkill THEN ~StartsWith10(skillId) ELSE StartsWith10(skillId)

\* the test of lines 805-811: is the catalog entry in the slot's pool?
InPool(skillId, isUniqueSkill) ==
    IF isUniqueSkill THEN StartsWith10(skillId) ELSE ~StartsWith10(skillId)

\* a variant of IsCandidate that admits every display name
IsCandidate_NoGate(name, skillName) == TRUE

\* the test of line 815 that admits a display name as a candidate
IsCandidate(name, skillName) == fuzzyMatch(name, skillName)

\* the similarity of lines 816-823 for one display name
AdjustedSimilarity(name, skillName) ==
    applyTierMatchingBonus(name, skillName,
        calculateSimilarity(normalizeString(name), normalizeString(skillName)))

\* one pass of the inner loop body, lines 815-836: the state
\* <<bestMatch, bestSimilarity>> after the display name is looked at
ConsiderName(best, skillId, name, skillName) ==
    IF ~IsCandidate(name, skillName) THEN best
    ELSE Only({IF DLess(best[2], similarity) THEN <<skillId, similarity>> ELSE best :
                 similarity \in {AdjustedSimilarity(name, skillName)}})

\* The two nested loops of findMatchingSkill, lines 801-838, from entry e,
\* name n on, with <<bestMatch, bestSimilarity>> as it stands.
RECURSIVE ScanCatalog(_, _, _, _, _, _)
ScanCatalog(catalog, skillName, isUniqueSkill, e, n, best) ==
    IF e > Len(catalog) THEN best
    ELSE IF ~InPool(catalog[e].id, isUniqueSkill) \/ n > Len(catalog[e].names)
    THEN ScanCatalog(catalog, skillName, isUniqueSkill, e + 1, 1, best)
    ELSE ScanCatalog(catalog, skillName, isUniqueSkill, e, n + 1,
                     ConsiderName(best, catalog[e].id, catalog[e].names[n], skillName))

findMatchingSkillIn(catalog, skillName, isUniqueSkill) ==
    LET final == ScanCatalog(catalog, skillName, isUniqueSkill, 1, 1,
                             <<NoSkill, Exact(0, 10)>>)
    IN  IF DLess(MatchThreshold, final[2]) THEN final[1] ELSE NoSkill

findMatchingSkill(skillName, isUniqueSkill) ==
    findMatchingSkillIn(skillnames, skillName, isUniqueSkill)

\* a variant of IsUniqueSlot that takes the second line for the unique slot
IsUniqueSlot_Second(i) == i = 1

\* line 783: the first line is the unique-skill slot
IsUniqueSlot(i) == i = 0

-----------------------------------------------------------------------------
(* Skill resolver: inputs *)

Str2(a, b) == <<a, b>>
Str4(a, b, c, d) == <<a, b, c, d>>

\* identifiers of the catalog in the order Object.entries yields them
\* (integer-like keys come in ascending numeric order)
CatalogIds ==
    << <<"1","0","0","0","1","1">>,
       <<"2","0","0","0","1","1">>,
       <<"2","0","0","0","1","2">> >>

\* display names of an entry: <<Japanese, English>>
NamePairs ==
    { << Str2("り","り"), Str4("a","b","c","d") >>,
      << Str2("り","ん"), Str4("a","b","c","e") >>,
      << Str2("り","◎"), Str4("a","b"," ","◎") >>,
      << Str2("り","○"), Str4("a","b"," ","○") >> }

AllNames == UNION {Range(p) : p \in NamePairs}

\* a catalog of one skill whose English name, 'abcde ◎', is one letter and
\* the tier away from the line 'abcdf ×': 4/5 - 0.2 in doubles is
\* 0.6000000000000001, above the threshold 0.6
ThresholdCatalog ==
    << [id |-> CatalogIds[2],
        names |-> << Str2("り","り"), <<"a","b","c","d","e"," ","◎">> >>] >>
ThresholdLine == <<"a","b","c","d","f"," ","×">>

\* catalogs: every entry has its own pair of names
Catalogs ==
    { [k \in 1..Len(CatalogIds) |-> [id |-> CatalogIds[k], names |-> f[k]]] :
        f \in {g \in [1..Len(CatalogIds) -> NamePairs] :
                 \A a, b \in 1..Len(CatalogIds) : a # b => g[a] # g[b]} }
    \cup {ThresholdCatalog}

\* recognised lines: every display name, and lines OCR noise produces
SkillLines ==
    AllNames \cup
    { Str4("a","c"," ","◎"), Str4("a","b"," ","O"), Str4("a","b"," ","×"),
      Str2(" "," "), ThresholdLine }

LineSeqs == UNION {[1..n -> SkillLines] : n \in 0..MaxLines}

-----------------------------------------------------------------------------
(* Skill resolver: findMatchingSkills as a state machine, one loop          *)
(* iteration per step                                                      *)

SkillOff ==
    /\ skillnames = <<>>
    /\ parsedSkills = <<>>
    /\ skillIdx = 0
    /\ matchedSkills = <<>>
    /\ resolved = <<>>
    /\ skillPc = "off"

TierOff ==
    /\ tierName = <<>>
    /\ tierLine = <<>>
    /\ tierBase = Exact(0, 10)
    /\ tierResult = Exact(0, 10)
    /\ tierPc = "off"

\* null where a TemplateMatch is expected, null where a ParsedUmaData is, and
\* a const that is not assigned yet
NoMatch == [null |-> TRUE]
\* line 142: useRef<number | null>(null), the reference when no timer is kept
\* (ids of intervals are positive)
NoInterval == 0
NoData == [null |-> TRUE]
Unset == [unset |-> TRUE]
EmptyMap == [n \in {} |-> << >>]

RunOff ==
    /\ pc = "off"
    /\ image = [width |-> 0, height |-> 0]
    /\ changeMatch = Unset
    /\ headersMatch = Unset
    /\ pending = 0
    /\ cropped = {}
    /\ extractedData = EmptyMap
    /\ faults = 0
    /\ lastParsedData = NoData
    /\ onDataParsedCalls = 0
    /\ errors = <<>>
    /\ isProcessing = FALSE
    /\ processingStage = ""
    /\ progress = 0
    /\ fakeProgressInterval = NoInterval
    /\ intervals = {}

SearchOff ==
    /\ searchImage = [width |-> 0, height |-> 0]
    /\ searchTemplate = [width |-> 0, height |-> 0]
    /\ minScale = 0
    /\ maxScale = 0
    /\ stepCount = 0
    /\ bestMatch = NoMatch
    /\ bestConfidence = 0
    /\ matsDeleted = FALSE
    /\ searchResult = NoMatch
    /\ searchPc = "off"
    /\ firstBest = NoMatch

\* the value of a function that has not returned yet
NoResult == << >>

FnOff ==
    /\ fnArgs = << >>
    /\ fnResult = << >>
    /\ fnPc = "off"

SkillInit ==
    /\ skillnames \in Catalogs
    /\ parsedSkills \in LineSeqs
    /\ skillIdx = 0
    /\ matchedSkills = <<>>
    /\ resolved = <<>>
    /\ skillPc = "loop"
    /\ TierOff
    /\ RunOff
    /\ SearchOff
    /\ FnOff

\* a variant of MatchLine that keeps an identifier only the first time
MatchLine_NoDuplicates ==
    /\ skillPc = "loop"
    /\ skillIdx < Len(parsedSkills)
    /\ \E parsedSkill \in {parsedSkills[skillIdx + 1]}, isUniqueSkill \in {IsUniqueSlot(skillIdx)} :
       \E skillId \in {IF parsedSkill = <<>> \/ trim(parsedSkill) = <<>>
                        THEN NoSkill
                        ELSE findMatchingSkill(parsedSkill, isUniqueSkill)} :
           /\ matchedSkills' = IF skillId # NoSkill /\ skillId \notin Range(matchedSkills)
                               THEN Append(matchedSkills, skillId)
                               ELSE matchedSkills
           /\ resolved' = Append(resolved, skillId)
    /\ skillIdx' = skillIdx + 1
    /\ UNCHANGED <<skillnames, parsedSkills, skillPc, tierVars, runVars, searchVars, fnVars>>

\* the body of the for loop, lines 777-792
MatchLine ==
    /\ skillPc = "loop"
    /\ skillIdx < Len(parsedSkills)
    /\ \E parsedSkill \in {parsedSkills[skillIdx + 1]}, isUniqueSkill \in {IsUniqueSlot(skillIdx)} :
       \E skillId \in {IF parsedSkill = <<>> \/ trim(parsedSkill) = <<>>
                        THEN NoSkill
                        ELSE findMatchingSkill(parsedSkill, isUniqueSkill)} :
           /\ matchedSkills' = IF skillId # NoSkill
                               THEN Append(matchedSkills, skillId)
                               ELSE matchedSkills
           /\ resolved' = Append(resolved, skillId)
    /\ skillIdx' = skillIdx + 1
    /\ UNCHANGED <<skillnames, parsedSkills, skillPc, tierVars, runVars, searchVars, fnVars>>

\* line 794
ReturnMatched ==
    /\ skillPc = "loop"
    /\ skillIdx >= Len(parsedSkills)
    /\ skillPc' = "returned"
    /\ UNCHANGED <<skillnames, parsedSkills, skillIdx, matchedSkills, resolved, tierVars, runVars, searchVars, fnVars>>

SkillNext == MatchLine \/ ReturnMatched

SpecSkill == SkillInit /\ [][SkillNext]_vars

\* findMatchingSkills on longer sequences of fewer lines, over catalogs whose
\* unique skill is 'abcd': a name of the catalog, a tier variant, a blank line
\* and a line that resolves to nothing
OrderCatalogs == {c \in Catalogs : c[1].names[2] = Str4("a","b","c","d")}
OrderLines ==
    { Str4("a","b","c","e"), Str4("a","b"," ","◎"), Str2(" "," "),
      Str4("x","y","z","w") }

SkillOrderInit ==
    /\ skillnames \in OrderCatalogs
    /\ parsedSkills \in UNION {[1..n -> OrderLines] : n \in 0..MaxOrderLines}
    /\ skillIdx = 0
    /\ matchedSkills = <<>>
    /\ resolved = <<>>
    /\ skillPc = "loop"
    /\ TierOff
    /\ RunOff
    /\ SearchOff
    /\ FnOff

SpecSkillOrder == SkillOrderInit /\ [][SkillNext]_vars

-----------------------------------------------------------------------------
(* Tier bonus: lines 815-823 of findMatchingSkill for one display name and  *)
(* one line                                                                *)

RECURSIVE StringsUpTo(_, _)
StringsUpTo(alphabet, n) ==
    IF n = 0 THEN {<<>>}
    ELSE LET shorter == StringsUpTo(alphabet, n - 1)
         IN  shorter \cup {Append(s, c) : s \in shorter, c \in alphabet}

TierStems == StringsUpTo({"a", "b"}, MaxStem)

\* endings of a display name or a line: no glyph, one glyph, the ' O' that
\* OCR makes of a circle, and a circle that follows another glyph of
\* /[◎○×©®™]/, which is then the one extractTierSymbol finds
TierSuffixes ==
    { <<>>, <<"◎">>, <<"○">>, <<"×">>, <<"©">>, <<"®">>, <<"TM">>, <<" ", "O">>,
      <<"©", "◎">>, <<"©", "○">>, <<"×", "◎">>, <<"×", "○">> }

TierTexts == {s \o t : s \in TierStems, t \in TierSuffixes}

TierInit ==
    /\ tierName \in TierTexts
    /\ tierLine \in TierTexts
    /\ tierBase = Exact(0, 10)
    /\ tierResult = Exact(0, 10)
    /\ tierPc = "in"
    /\ SkillOff
    /\ RunOff
    /\ SearchOff
    /\ FnOff

\* the display name passes line 815: lines 816-823
ScoreCandidate ==
    /\ tierPc = "in"
    /\ IsCandidate(tierName, tierLine)
    /\ LET similarity ==
               calculateSimilarity(normalizeString(tierName), normalizeString(tierLine))
       IN  /\ tierBase' = similarity
           /\ tierResult' = applyTierMatchingBonus(tierName, tierLine, similarity)
    /\ tierPc' = "scored"
    /\ UNCHANGED <<tierName, tierLine, skillVars, runVars, searchVars, fnVars>>

\* the display name fails line 815
SkipCandidate ==
    /\ tierPc = "in"
    /\ ~IsCandidate(tierName, tierLine)
    /\ tierPc' = "skipped"
    /\ UNCHANGED <<tierName, tierLine, tierBase, tierResult, skillVars, runVars, searchVars, fnVars>>

TierNext == ScoreCandidate \/ SkipCandidate

SpecTier == TierInit /\ [][TierNext]_vars

-----------------------------------------------------------------------------
(* findBestTemplateMatch: the scale search                                  *)

\* scales are doubles counted in units of 1/HalfUnit: 0.3, 2.0 and what every
\* probe of the ten steps would be without rounding are whole numbers of
\* units
HalfUnit == 5 * 2^14

\* the double of an integer
DInt(x) == Exact(HalfUnit * x, HalfUnit)

\* lines 509-511: let minScale = 0.3; let maxScale = 2.0; const maxSteps = 10
InitialMinScale == Literal(3 * (HalfUnit \div 10), HalfUnit)
InitialMaxScale == DInt(2)
maxSteps == 10

\* lines 575-577: the three scales a step probes
lowScale(lo, hi) == DAdd(lo, DQuarter(DSub(hi, lo)))
midScale(lo, hi) == DHalf(DAdd(lo, hi))
highScale(lo, hi) == DAdd(lo, DTimes(3, DQuarter(DSub(hi, lo))))


\* confidences (cv.minMaxLoc(...).maxVal) are integers in hundredths
ConfidenceUnit == 10 * 10
InitialBestConfidence == 0 - ConfidenceUnit

\* Math.round(num / den) for den > 0: the nearest integer, halves up
RoundDiv(num, den) == (2 * num + den) \div (2 * den)

\* Math.round of the double value / HalfUnit plus error: a number that would
\* be half way between two integers without the roundings is below half way
\* when the roundings made it smaller (the error is looked at in that case
\* only)
MathRound(value, error) ==
    RoundDiv(value, HalfUnit)
    - (IF (2 * value + HalfUnit) % (2 * HalfUnit) = 0 /\ error < 0 THEN 1 ELSE 0)

\* Math.round(k * scale) and Math.round(k * scale + offset) for an integer k
RoundProduct(k, scale) ==
    MathRound(k * scale.value, DTimes(k, scale).error)
RoundProductPlus(k, scale, offset) ==
    MathRound(k * scale.value + offset.value, DAdd(DTimes(k, scale), offset).error)

\* the sizes of the two template images (change.jpg, headers.jpg)
TemplateSizes ==
    [change |-> [width |-> 150, height |-> 60],
     headers |-> [width |-> 396, height |-> 42]]

\* confidences and locations cv.matchTemplate / cv.minMaxLoc may report
ConfidenceLevels == {50, 90}
MatchLocations == {[x |-> 0, y |-> 0], [x |-> 5, y |-> 7]}

SearchImages ==
    {[width |-> 1200, height |-> 1100],
     [width |-> 100, height |-> 30],
     [width |-> 40, height |-> 10]}

\* the searches started: every probe of either template fits the largest
\* image, on which the search never looks at the template again, so that
\* image is searched for one template and the smaller ones for both
SearchCases ==
    {<<img, tpl>> \in SearchImages \X {TemplateSizes.change, TemplateSizes.headers} :
        img.width < 1200 \/ tpl = TemplateSizes.headers}

\* lines 517-523: is the template, resized by scale, no larger than the image?
ScaledFits(img, tpl, scale) ==
    /\ RoundProduct(tpl.width, scale) <= img.width
    /\ RoundProduct(tpl.height, scale) <= img.height

\* minMaxLoc reports a location of the result matrix of matchTemplate, which
\* has image.width - scaledWidth + 1 columns and image.height - scaledHeight
\* + 1 rows: the location asked for when the matrix has it, else its origin
ProbeLocation(img, tpl, scale, location) ==
    IF /\ location.x + RoundProduct(tpl.width, scale) <= img.width
       /\ location.y + RoundProduct(tpl.height, scale) <= img.height
    THEN location
    ELSE [x |-> 0, y |-> 0]

\* a variant of testScale without the size check
testScale_NoSizeCheck(img, tpl, scale, confidence, location, best, bestConf) ==
    IF confidence > bestConf
    THEN <<confidence,
           [x |-> location.x, y |-> location.y, scaleX |-> scale, scaleY |-> scale,
            confidence |-> confidence],
           confidence>>
    ELSE <<confidence, best, bestConf>>

\* a variant of testScale that also replaces the best match on an equal
\* confidence
testScale_LastBest(img, tpl, scale, confidence, location, best, bestConf) ==
    IF ~ScaledFits(img, tpl, scale) THEN <<0, best, bestConf>>
    ELSE IF confidence >= bestConf
    THEN <<confidence,
           [x |-> location.x, y |-> location.y, scaleX |-> scale, scaleY |-> scale,
            confidence |-> confidence],
           confidence>>
    ELSE <<confidence, best, bestConf>>

\* testScale, lines 515-557, with the confidence and location OpenCV
\* reports: <<returned confidence, bestMatch, bestConfidence>>
testScale(img, tpl, scale, confidence, location, best, bestConf) ==
    IF ~ScaledFits(img, tpl, scale) THEN <<0, best, bestConf>>
    ELSE IF confidence > bestConf
    THEN <<confidence,
           [x |-> location.x, y |-> location.y, scaleX |-> scale, scaleY |-> scale,
            confidence |-> confidence],
           confidence>>
    ELSE <<confidence, best, bestConf>>

\* what findBestTemplateMatch hands to resolve, line 568
ResolvedMatch(best, bestConf) == best

SearchInit ==
    /\ \E case \in SearchCases :
        searchImage = case[1] /\ searchTemplate = case[2]
    /\ minScale = InitialMinScale
    /\ maxScale = InitialMaxScale
    /\ stepCount = 0
    /\ bestMatch = NoMatch
    /\ bestConfidence = InitialBestConfidence
    /\ matsDeleted = FALSE
    /\ searchResult = NoMatch
    /\ searchPc = "searching"
    /\ firstBest = NoMatch
    /\ SkillOff
    /\ TierOff
    /\ RunOff
    /\ FnOff

\* a variant of NarrowScale whose middle range ends at the old maxScale
NarrowScale_WideMid(lo, hi, low, mid, high, lowConfidence, midConfidence, highConfidence) ==
    IF lowConfidence >= midConfidence /\ lowConfidence >= highConfidence
    THEN <<lo, mid>>
    ELSE IF highConfidence >= midConfidence /\ highConfidence >= lowConfidence
    THEN <<mid, hi>>
    ELSE <<low, hi>>

\* a variant of NarrowScale that takes the middle range on every tie
NarrowScale_MidOnTies(lo, hi, low, mid, high, lowConfidence, midConfidence, highConfidence) ==
    IF lowConfidence > midConfidence /\ lowConfidence > highConfidence
    THEN <<lo, mid>>
    ELSE IF highConfidence > midConfidence /\ highConfidence > lowConfidence
    THEN <<mid, hi>>
    ELSE <<low, high>>

\* lines 586-596: the interval the step narrows [lo, hi] to, from the three
\* scales it probed (lowScale, midScale, highScale of lines 575-577) and the
\* confidences the three testScale calls returned
NarrowScale(lo, hi, low, mid, high, lowConfidence, midConfidence, highConfidence) ==
    IF lowConfidence >= midConfidence /\ lowConfidence >= highConfidence
    THEN <<lo, mid>>
    ELSE IF highConfidence >= midConfidence /\ highConfidence >= lowConfidence
    THEN <<mid, hi>>
    ELSE <<low, high>>

\* lines 575-577 and 586-596 for one interval and three confidences
NarrowFrom(lo, hi, lowConfidence, midConfidence, highConfidence) ==
    NarrowScale(lo, hi, lowScale(lo, hi), midScale(lo, hi), highScale(lo, hi),
                lowConfidence, midConfidence, highConfidence)

\* history: the first of the probes evaluated so far (those that passed the
\* size check) that has the highest confidence among them
FirstHighest(probes) ==
    IF probes = << >> THEN NoMatch
    ELSE LET k == CHOOSE i \in 1..Len(probes) :
                     /\ \A j \in 1..Len(probes) : probes[j].confidence <= probes[i].confidence
                     /\ \A j \in 1..(i - 1) : probes[j].confidence < probes[i].confidence
         IN  probes[k]

\* history: the probe as a list, empty when the scale fails the size check
Evaluated(scale, location, confidence) ==
    IF ScaledFits(searchImage, searchTemplate, scale)
    THEN << [x |-> location.x, y |-> location.y, scaleX |-> scale, scaleY |-> scale,
             confidence |-> confidence] >>
    ELSE << >>

\* binarySearchScale with stepCount < maxSteps, lines 572-599; the locals of
\* the step are bound over one-element sets
BinarySearchStep ==
    /\ searchPc = "searching"
    /\ stepCount < maxSteps
    /\ stepCount' = stepCount + 1
    /\ \E low \in {lowScale(minScale, maxScale)},
          mid \in {midScale(minScale, maxScale)},
          high \in {highScale(minScale, maxScale)},
          loc \in MatchLocations :
       \E lowAt \in {ProbeLocation(searchImage, searchTemplate, low, loc)},
          midAt \in {ProbeLocation(searchImage, searchTemplate, mid, loc)},
          highAt \in {ProbeLocation(searchImage, searchTemplate, high, loc)},
          lowC, midC, highC \in ConfidenceLevels :
       \E t1 \in {testScale(searchImage, searchTemplate, low, lowC, lowAt,
                            bestMatch, bestConfidence)} :
       \E t2 \in {testScale(searchImage, searchTemplate, mid, midC, midAt,
                            t1[2], t1[3])} :
       \E t3 \in {testScale(searchImage, searchTemplate, high, highC, highAt,
                            t2[2], t2[3])} :
       \E narrowed \in {NarrowScale(minScale, maxScale, low, mid, high,
                                    t1[1], t2[1], t3[1])} :
          /\ bestMatch' = t3[2]
          /\ bestConfidence' = t3[3]
          /\ minScale' = narrowed[1]
          /\ maxScale' = narrowed[2]
          /\ firstBest' = FirstHighest((IF firstBest = NoMatch THEN << >>
                                        ELSE << firstBest >>)
                                       \o Evaluated(low, lowAt, lowC)
                                       \o Evaluated(mid, midAt, midC)
                                       \o Evaluated(high, highAt, highC))
    /\ UNCHANGED <<searchImage, searchTemplate, matsDeleted, searchResult, searchPc>>
    /\ UNCHANGED <<skillVars, tierVars, runVars, fnVars>>

\* a variant of SearchResolve that resolves without deleting the two Mats
SearchResolve_KeepsMats ==
    /\ searchPc = "searching"
    /\ stepCount >= maxSteps
    /\ searchResult' = ResolvedMatch(bestMatch, bestConfidence)
    /\ searchPc' = "resolved"
    /\ UNCHANGED <<searchImage, searchTemplate, minScale, maxScale, stepCount,
                   bestMatch, bestConfidence, firstBest, matsDeleted>>
    /\ UNCHANGED <<skillVars, tierVars, runVars, fnVars>>

\* binarySearchScale with stepCount >= maxSteps, lines 561-570
SearchResolve ==
    /\ searchPc = "searching"
    /\ stepCount >= maxSteps
    /\ matsDeleted' = TRUE
    /\ searchResult' = ResolvedMatch(bestMatch, bestConfidence)
    /\ searchPc' = "resolved"
    /\ UNCHANGED <<searchImage, searchTemplate, minScale, maxScale, stepCount,
                   bestMatch, bestConfidence, firstBest>>
    /\ UNCHANGED <<skillVars, tierVars, runVars, fnVars>>

SearchNext == BinarySearchStep \/ SearchResolve

SpecSearch == SearchInit /\ [][SearchNext]_vars

\* setTimeout(binarySearchScale, 0) of line 599 and the first call of line 603:
\* the event loop runs every step that was scheduled
SpecSearchFair == SpecSearch /\ WF_vars(SearchNext)

\* the range after the given number of steps that each narrowed to the low
\* range
RECURSIVE LowestRange(_)
LowestRange(steps) ==
    IF steps = 0 THEN <<InitialMinScale, InitialMaxScale>>
    ELSE NarrowFrom(LowestRange(steps - 1)[1], LowestRange(steps - 1)[2], 90, 0, 0)

\* the smallest scale a search probes: the low probe of the tenth step when
\* every step narrowed to the low range
SmallestProbe == lowScale(LowestRange(maxSteps - 1)[1], LowestRange(maxSteps - 1)[2])

-----------------------------------------------------------------------------
(* One narrowing decision of binarySearchScale (lines 586-596), for every   *)
(* combination of the confidences the three testScale calls can return      *)

\* what testScale returns: 0 for a scale it skips, else the confidence found
ProbeConfidences == {0} \cup ConfidenceLevels

\* the interval the search starts with and the three it narrows that to
NarrowIntervals ==
    {<<InitialMinScale, InitialMaxScale>>}
    \cup {NarrowFrom(InitialMinScale, InitialMaxScale, c[1], c[2], c[3]) :
             c \in {<<90, 0, 0>>, <<0, 90, 0>>, <<0, 0, 90>>}}

NarrowInit ==
    /\ fnArgs \in {[minScale |-> i[1], maxScale |-> i[2], lowConfidence |-> l,
                    midConfidence |-> m, highConfidence |-> h] :
                      i \in NarrowIntervals, l \in ProbeConfidences,
                      m \in ProbeConfidences, h \in ProbeConfidences}
    /\ fnResult = NoResult
    /\ fnPc = "in"
    /\ SkillOff
    /\ TierOff
    /\ RunOff
    /\ SearchOff

ApplyNarrowScale ==
    /\ fnPc = "in"
    /\ fnResult' = NarrowFrom(fnArgs.minScale, fnArgs.maxScale, fnArgs.lowConfidence,
                              fnArgs.midConfidence, fnArgs.highConfidence)
    /\ fnPc' = "NarrowScale"
    /\ UNCHANGED <<fnArgs, skillVars, tierVars, runVars, searchVars>>

NarrowNext == ApplyNarrowScale

SpecNarrow == NarrowInit /\ [][NarrowNext]_vars

-----------------------------------------------------------------------------
(* Calibration and region projection                                        *)

TEMPLATE_POSITIONS ==
    [change |-> [x |-> 852, y |-> 292],
     headers |-> [x |-> 38, y |-> 404]]

DataRegion(name, x, y, width, height, type) ==
    [name |-> name, x |-> x, y |-> y, width |-> width, height |-> height,
     type |-> type]

DATA_REGIONS ==
    << DataRegion("uma_outfit", 553, 117, 456, 84, "name"),
       DataRegion("uma_name", 565, 195, 420, 64, "name"),
       DataRegion("speed", 118, 453, 106, 56, "stats"),
       DataRegion("stamina", 319, 453, 106, 56, "stats"),
       DataRegion("power", 523, 453, 106, 56, "stats"),
       DataRegion("guts", 731, 453, 106, 56, "stats"),
       DataRegion("wit", 923, 453, 106, 56, "stats"),
       DataRegion("turf_aptitude", 386, 551, 40, 40, "aptitudes"),
       DataRegion("dirt_aptitude", 578, 551, 40, 40, "aptitudes"),
       DataRegion("sprint_aptitude", 386, 610, 40, 40, "aptitudes"),
       DataRegion("mile_aptitude", 578, 610, 40, 40, "aptitudes"),
       DataRegion("medium_aptitude", 770, 610, 40, 40, "aptitudes"),
       DataRegion("long_aptitude", 960, 610, 40, 40, "aptitudes"),
       DataRegion("front_aptitude", 386, 672, 40, 40, "aptitudes"),
       DataRegion("pace_aptitude", 578, 672, 40, 40, "aptitudes"),
       DataRegion("late_aptitude", 770, 672, 40, 40, "aptitudes"),
       DataRegion("end_aptitude", 960, 672, 40, 40, "aptitudes") >>

skillYInterval == 112
startY == 864
leftX == 112
rightX == 615
skillWidth == 320
skillHeight == 68

SkillName(skillIndex) == "skill_" \o ToString(skillIndex)

-----------------------------------------------------------------------------
(* Calibrated scales and offsets are doubles counted in units of 1/HalfUnit *)

\* a variant of SkillRows that leaves the offset out of the projection
RECURSIVE SkillRows_NoOffset(_, _, _, _, _)
SkillRows_NoOffset(imageHeight, scale, offset, skillIndex, currentY) ==
    IF currentY + skillHeight < imageHeight
    THEN << DataRegion(SkillName(skillIndex),
                       RoundProduct(leftX, scale),
                       RoundProduct(currentY, scale),
                       RoundProduct(skillWidth, scale),
                       RoundProduct(skillHeight, scale), "skills"),
            DataRegion(SkillName(skillIndex + 1),
                       RoundProduct(rightX, scale),
                       RoundProduct(currentY, scale),
                       RoundProduct(skillWidth, scale),
                       RoundProduct(skillHeight, scale), "skills") >>
         \o SkillRows_NoOffset(imageHeight, scale, offset, skillIndex + 2,
                               currentY + skillYInterval)
    ELSE << >>

\* the body of the while loop of generateSkillRegions, from currentY on
RECURSIVE SkillRows(_, _, _, _, _)
SkillRows(imageHeight, scale, offset, skillIndex, currentY) ==
    IF currentY + skillHeight < imageHeight
    THEN << DataRegion(SkillName(skillIndex),
                       RoundProductPlus(leftX, scale, offset.x),
                       RoundProductPlus(currentY, scale, offset.y),
                       RoundProduct(skillWidth, scale),
                       RoundProduct(skillHeight, scale), "skills"),
            DataRegion(SkillName(skillIndex + 1),
                       RoundProductPlus(rightX, scale, offset.x),
                       RoundProductPlus(currentY, scale, offset.y),
                       RoundProduct(skillWidth, scale),
                       RoundProduct(skillHeight, scale), "skills") >>
         \o SkillRows(imageHeight, scale, offset, skillIndex + 2,
                      currentY + skillYInterval)
    ELSE << >>

generateSkillRegions(imageHeight, scale, offset) ==
    SkillRows(imageHeight, scale, offset, 1, startY)

\* a variant of calculateScales that takes the vertical scale from the change
\* match alone
calculateScales_ChangeOnlyY(cm, hm) ==
    [scaleX |-> DHalf(DAdd(cm.scaleX, hm.scaleX)),
     scaleY |-> DHalf(DAdd(cm.scaleY, cm.scaleY))]

\* lines 609-610
calculateScales(cm, hm) ==
    [scaleX |-> DHalf(DAdd(cm.scaleX, hm.scaleX)),
     scaleY |-> DHalf(DAdd(cm.scaleY, hm.scaleY))]

\* a variant of calculateOffset that subtracts the unscaled reference anchors
calculateOffset_Unscaled(cm, hm, scales) ==
    [x |-> DHalf(DAdd(DInt(cm.x - TEMPLATE_POSITIONS.change.x),
                      DInt(hm.x - TEMPLATE_POSITIONS.headers.x))),
     y |-> DHalf(DAdd(DInt(cm.y - TEMPLATE_POSITIONS.change.y),
                      DInt(hm.y - TEMPLATE_POSITIONS.headers.y)))]

calculateOffset(cm, hm, scales) ==
    LET changeOffsetX ==
            DSub(DInt(cm.x), DTimes(TEMPLATE_POSITIONS.change.x, cm.scaleX))
        changeOffsetY ==
            DSub(DInt(cm.y), DTimes(TEMPLATE_POSITIONS.change.y, cm.scaleY))
        headersOffsetX ==
            DSub(DInt(hm.x), DTimes(TEMPLATE_POSITIONS.headers.x, hm.scaleX))
        headersOffsetY ==
            DSub(DInt(hm.y), DTimes(TEMPLATE_POSITIONS.headers.y, hm.scaleY))
    IN  [x |-> DHalf(DAdd(changeOffsetX, headersOffsetX)),
         y |-> DHalf(DAdd(changeOffsetY, headersOffsetY))]

adjustRegion(region, scales, offset) ==
    [region EXCEPT
        !.x = RoundProductPlus(region.x, scales.scaleX, offset.x),
        !.y = RoundProductPlus(region.y, scales.scaleY, offset.y),
        !.width = RoundProduct(region.width, scales.scaleX),
        !.height = RoundProduct(region.height, scales.scaleY)]

\* the condition of lines 261-263
WithinBounds(region, img) ==
    /\ region.x >= 0
    /\ region.y >= 0
    /\ region.x + region.width <= img.width
    /\ region.y + region.height <= img.height

\* is the region at position k extracted?  The first loop extracts every
\* region, the second only those within the image
Extracted(regions, k, img) ==
    k <= Len(DATA_REGIONS) \/ WithinBounds(regions[k], img)

\* the next position after k whose region is extracted, 0 when the loops end
NextExtracted(regions, k, img) ==
    LET later == {j \in (k + 1)..Len(regions) : Extracted(regions, j, img)}
    IN  IF later = {} THEN 0 ELSE CHOOSE j \in later : \A i \in later : j <= i

-----------------------------------------------------------------------------
(* parseExtractedData                                                       *)

DigitSet == Range(DigitChars)
DigitValue == [c \in DigitSet |-> (CHOOSE k \in 1..Len(DigitChars) : DigitChars[k] = c) - 1]

RECURSIVE parseInt(_)
parseInt(digits) ==
    IF digits = << >> THEN 0
    ELSE 10 * parseInt(SubSeq(digits, 1, Len(digits) - 1)) + DigitValue[digits[Len(digits)]]

\* a variant of parseStat that never takes a fourth digit
parseStat_ThreeDigits(text) ==
    LET starts == {i \in 1..(Len(text) - 2) :
                      \A j \in i..(i + 2) : text[j] \in DigitSet}
    IN  IF starts = {} THEN 0
        ELSE LET i == CHOOSE a \in starts : \A b \in starts : a <= b
             IN  parseInt(SubSeq(text, i, i + 2))

\* text.match(/(\d{3,4})/): the leftmost run of three digits, and a fourth
\* digit when one follows
parseStat(text) ==
    LET starts == {i \in 1..(Len(text) - 2) :
                      \A j \in i..(i + 2) : text[j] \in DigitSet}
    IN  IF starts = {} THEN 0
        ELSE LET i == CHOOSE a \in starts : \A b \in starts : a <= b
                 last == IF i + 3 <= Len(text) /\ text[i + 3] \in DigitSet
                         THEN i + 3 ELSE i + 2
             IN  parseInt(SubSeq(text, i, last))

\* a variant of parseAptitude that takes the last upper-case letter
parseAptitude_Last(text) ==
    LET hits == {i \in 1..Len(text) : text[i] \in UpperSet}
    IN  IF hits = {} THEN "G"
        ELSE text[CHOOSE a \in hits : \A b \in hits : b <= a]

\* text.match(/([A-Z])/): the first upper-case letter, 'G' without one
parseAptitude(text) ==
    LET hits == {i \in 1..Len(text) : text[i] \in UpperSet}
    IN  IF hits = {} THEN "G"
        ELSE text[CHOOSE a \in hits : \A b \in hits : a <= b]

UnknownUma == <<"U","n","k","n","o","w","n"," ","U","m","a">>

\* the while loop of lines 717-723
RECURSIVE CollectSkills(_, _)
CollectSkills(data, skillIndex) ==
    IF SkillName(skillIndex) \notin DOMAIN data THEN << >>
    ELSE LET skillText == data[SkillName(skillIndex)]
         IN  (IF trim(skillText) # << >> THEN << trim(skillText) >> ELSE << >>)
             \o CollectSkills(data, skillIndex + 1)

parseExtractedData(data) ==
    [outfit |-> data["uma_outfit"],
     name |-> IF data["uma_name"] = << >> THEN UnknownUma ELSE data["uma_name"],
     stats |-> [speed |-> parseStat(data["speed"]),
                stamina |-> parseStat(data["stamina"]),
                power |-> parseStat(data["power"]),
                guts |-> parseStat(data["guts"]),
                wisdom |-> parseStat(data["wit"])],
     aptitudes |->
        [track |-> [turf |-> parseAptitude(data["turf_aptitude"]),
                    dirt |-> parseAptitude(data["dirt_aptitude"])],
         distance |-> [sprint |-> parseAptitude(data["sprint_aptitude"]),
                       mile |-> parseAptitude(data["mile_aptitude"]),
                       medium |-> parseAptitude(data["medium_aptitude"]),
                       long |-> parseAptitude(data["long_aptitude"])],
         style |-> [front |-> parseAptitude(data["front_aptitude"]),
                    pace |-> parseAptitude(data["pace_aptitude"]),
                    late |-> parseAptitude(data["late_aptitude"]),
                    end |-> parseAptitude(data["end_aptitude"])]],
     skills |-> CollectSkills(data, 1)]

-----------------------------------------------------------------------------
(* parseStat and parseAptitude, one call on one recognised text             *)

\* recognised texts: digits, grades, a lower-case letter and a blank, and the
\* reading 'S 1012' of a stat with its rank letter
ParseAlphabet == {"0", "7", "A", "S", "g", " "}
ParseTexts ==
    UNION {[1..n -> ParseAlphabet] : n \in 0..MaxText}
    \cup {<<"S", " ", "1", "0", "1", "2">>}

ParseInit ==
    /\ fnArgs \in {[text |-> t] : t \in ParseTexts}
    /\ fnResult = NoResult
    /\ fnPc = "in"
    /\ SkillOff
    /\ TierOff
    /\ RunOff
    /\ SearchOff

ApplyParseStat ==
    /\ fnPc = "in"
    /\ fnResult' = parseStat(fnArgs.text)
    /\ fnPc' = "parseStat"
    /\ UNCHANGED <<fnArgs, skillVars, tierVars, runVars, searchVars>>

ApplyParseAptitude ==
    /\ fnPc = "in"
    /\ fnResult' = parseAptitude(fnArgs.text)
    /\ fnPc' = "parseAptitude"
    /\ UNCHANGED <<fnArgs, skillVars, tierVars, runVars, searchVars>>

ParseNext == ApplyParseStat \/ ApplyParseAptitude

SpecParse == ParseInit /\ [][ParseNext]_vars

-----------------------------------------------------------------------------
(* handleFileSelect                                                         *)

NotImageMessage == "Please select an image file"
NoTemplateMessage ==
    "Could not find template matches in the image. Please ensure the image contains the Uma Musume details screen."
FailedMessage(message) == "Failed to process image: " \o message

\* the screenshots a user selects
Images ==
    {[width |-> 1012, height |-> 640],
     [width |-> 1200, height |-> 1100],
     [width |-> 100, height |-> 30],
     [width |-> 130, height |-> 15],
     [width |-> 40, height |-> 10]}

TemplateMatch(x, y, scale, confidence) ==
    [x |-> x, y |-> y, scaleX |-> scale, scaleY |-> scale, confidence |-> confidence]

\* the middle probe of the first step (1.15) and the high probe of a second
\* step that follows a first step narrowing to the low range (0.9375)
FirstMidProbe == midScale(InitialMinScale, InitialMaxScale)
SecondHighProbe == highScale(LowestRange(1)[1], LowestRange(1)[2])

\* matches a search may end with: the anchor found at scale 0.9375 or 1.15,
\* or a weak match at the smallest scale probed
ChangeCandidates ==
    {TemplateMatch(799, 274, SecondHighProbe, 90),
     TemplateMatch(980, 336, FirstMidProbe, 50),
     TemplateMatch(0, 0, SmallestProbe, 50)}
HeadersCandidates ==
    {TemplateMatch(36, 379, SecondHighProbe, 90),
     TemplateMatch(44, 465, FirstMidProbe, 50),
     TemplateMatch(0, 0, SmallestProbe, 50)}

\* a match lies where the scaled template is inside the image
MatchInside(img, tpl, m) ==
    /\ ScaledFits(img, tpl, m.scaleX)
    /\ m.x + RoundProduct(tpl.width, m.scaleX) <= img.width
    /\ m.y + RoundProduct(tpl.height, m.scaleY) <= img.height

\* the values findBestTemplateMatch resolves with: null exactly when no scale
\* it probes makes the template fit (every step then narrows to the low range)
SearchOutcomes(img, tpl, candidates) ==
    IF ~ScaledFits(img, tpl, SmallestProbe) THEN {NoMatch}
    ELSE {m \in candidates : MatchInside(img, tpl, m)}

\* lines 237-238
Calibration(cm, hm) ==
    [scales |-> calculateScales(cm, hm),
     offset |-> calculateOffset(cm, hm, calculateScales(cm, hm))]

\* the same for the matches a run can end its searches with, computed once
CandidateCalibrations ==
    [cm \in ChangeCandidates, hm \in HeadersCandidates |-> Calibration(cm, hm)]

CalibrationOf(cm, hm) ==
    IF cm \in ChangeCandidates /\ hm \in HeadersCandidates
    THEN CandidateCalibrations[cm, hm]
    ELSE Calibration(cm, hm)

\* the regions of the two loops of lines 248-271, in the order they are visited
LoopRegions(img, calibration) ==
    [k \in 1..Len(DATA_REGIONS) |->
        adjustRegion(DATA_REGIONS[k], calibration.scales, calibration.offset)]
    \o generateSkillRegions(img.height, calibration.scales.scaleY, calibration.offset)

\* the same for the images and matches of a run, computed once
CandidateRegions ==
    [img \in Images, cm \in ChangeCandidates, hm \in HeadersCandidates |->
        LoopRegions(img, CandidateCalibrations[cm, hm])]

RunRegions(img, cm, hm) ==
    IF img \in Images /\ cm \in ChangeCandidates /\ hm \in HeadersCandidates
    THEN CandidateRegions[img, cm, hm]
    ELSE LoopRegions(img, Calibration(cm, hm))

\* what is on the screen, as Tesseract reads it when it reads it right
ScreenText ==
    [uma_outfit |-> <<"[","A","b","]","\n">>,
     uma_name |-> <<"U","m","a","\n">>,
     speed |-> <<"1","0","1","2","\n">>,
     stamina |-> <<"9","8","7","\n">>,
     power |-> <<"S"," ","1","2","0","0","\n">>,
     guts |-> <<"4","5","6","\n">>,
     wit |-> <<"8","0","0","\n">>,
     turf_aptitude |-> <<"A","\n">>,
     dirt_aptitude |-> <<"G","\n">>,
     sprint_aptitude |-> <<"C","\n">>,
     mile_aptitude |-> <<"B","\n">>,
     medium_aptitude |-> <<"A","\n">>,
     long_aptitude |-> <<"B","\n">>,
     front_aptitude |-> <<"S","\n">>,
     pace_aptitude |-> <<"A","\n">>,
     late_aptitude |-> <<"D","\n">>,
     end_aptitude |-> <<"F","\n">>]

CleanText(region) ==
    IF region.type = "skills" THEN <<"a","b"," ","◎","\n">>
    ELSE ScreenText[region.name]

\* what Tesseract may return instead: nothing legible
FaultTexts == {<<" ","\n">>}

\* what Tesseract may return for a grade badge: a letter that is no grade
MisreadTexts(region) ==
    IF region.type = "aptitudes" THEN {<<"H","\n">>} ELSE {}

\* a variant of CalibrationFails that fails only when both anchors are missing
CalibrationFails_Both(cm, hm) == cm = NoMatch /\ hm = NoMatch

\* line 232
CalibrationFails(cm, hm) == cm = NoMatch \/ hm = NoMatch

\* window.setInterval returns an id that no interval of the window has
NewInterval(live) == CHOOSE id \in 1..(Cardinality(live) + 1) : id \notin live

\* startFakeProgress, lines 172-179: the interval the reference holds is
\* cleared, a new one is set and the reference holds it
startFakeProgress ==
    \E kept \in {IF fakeProgressInterval # NoInterval
                 THEN intervals \ {fakeProgressInterval}
                 ELSE intervals} :
        /\ fakeProgressInterval' = NewInterval(kept)
        /\ intervals' = kept \cup {NewInterval(kept)}

\* a variant of stopFakeProgress that drops the reference without
\* clearInterval
stopFakeProgress_KeepsInterval ==
    /\ fakeProgressInterval' = NoInterval
    /\ intervals' = intervals

\* stopFakeProgress, lines 181-186
stopFakeProgress ==
    IF fakeProgressInterval # NoInterval
    THEN /\ intervals' = intervals \ {fakeProgressInterval}
         /\ fakeProgressInterval' = NoInterval
    ELSE UNCHANGED <<fakeProgressInterval, intervals>>

\* the finally block, lines 280-285
Finally ==
    /\ stopFakeProgress
    /\ isProcessing' = FALSE
    /\ progress' = 0
    /\ processingStage' = ""

\* the catch block and the finally block, lines 278-285
Catch(message) ==
    /\ errors' = Append(errors, FailedMessage(message))
    /\ Finally
    /\ pc' = "done"

otherVars == <<skillVars, tierVars, searchVars, fnVars>>

Init ==
    /\ pc = "idle"
    /\ image = [width |-> 0, height |-> 0]
    /\ changeMatch = Unset
    /\ headersMatch = Unset
    /\ pending = 0
    /\ cropped = {}
    /\ extractedData = EmptyMap
    /\ faults = 0
    /\ lastParsedData = NoData
    /\ onDataParsedCalls = 0
    /\ errors = << >>
    /\ isProcessing = FALSE
    /\ processingStage = ""
    /\ progress = 0
    /\ fakeProgressInterval = NoInterval
    /\ intervals = {}
    /\ SkillOff
    /\ TierOff
    /\ SearchOff
    /\ FnOff

\* line 191: no file was chosen
SelectNoFile ==
    /\ pc = "idle"
    /\ pc' = "noFile"
    /\ UNCHANGED <<image, changeMatch, headersMatch, pending, cropped, extractedData,
                   faults, lastParsedData, onDataParsedCalls, errors, isProcessing,
                   processingStage, progress, fakeProgressInterval, intervals>>
    /\ UNCHANGED otherVars

\* lines 193-196: the file is not an image
SelectNonImage ==
    /\ pc = "idle"
    /\ errors' = Append(errors, NotImageMessage)
    /\ pc' = "done"
    /\ UNCHANGED <<image, changeMatch, headersMatch, pending, cropped, extractedData,
                   faults, lastParsedData, onDataParsedCalls, isProcessing,
                   processingStage, progress, fakeProgressInterval, intervals>>
    /\ UNCHANGED otherVars

\* lines 198-208, up to the await of initializeOpenCV
SelectImage ==
    /\ pc = "idle"
    /\ isProcessing' = TRUE
    /\ progress' = 0
    /\ startFakeProgress
    /\ processingStage' = "Initializing OpenCV..."
    /\ pc' = "awaitOpenCV"
    /\ UNCHANGED <<image, changeMatch, headersMatch, pending, cropped, extractedData,
                   faults, lastParsedData, onDataParsedCalls, errors>>
    /\ UNCHANGED otherVars

\* the callback of an interval that is set (line 177) is called
IntervalCallback ==
    /\ intervals # {}
    /\ progress' = IF progress + 1 < 99 THEN progress + 1 ELSE 99
    /\ UNCHANGED <<pc, image, changeMatch, headersMatch, pending, cropped,
                   extractedData, faults, lastParsedData, onDataParsedCalls, errors,
                   isProcessing, processingStage, fakeProgressInterval, intervals>>
    /\ UNCHANGED otherVars

\* the interval callback, followed for the first MaxTicks calls of a run
Tick ==
    /\ progress < MaxTicks
    /\ IntervalCallback

\* initializeOpenCV resolved; line 211 starts loading the file
OpenCVReady ==
    /\ pc = "awaitOpenCV"
    /\ pc' = "awaitImage"
    /\ UNCHANGED <<image, changeMatch, headersMatch, pending, cropped, extractedData,
                   faults, lastParsedData, onDataParsedCalls, errors, isProcessing,
                   processingStage, progress, fakeProgressInterval, intervals>>
    /\ UNCHANGED otherVars

\* loadImage resolved; lines 212-216
ImageLoaded ==
    /\ pc = "awaitImage"
    /\ image' \in Images
    /\ processingStage' = "Loading templates..."
    /\ pc' = "awaitChangeTemplate"
    /\ UNCHANGED <<changeMatch, headersMatch, pending, cropped, extractedData, faults,
                   lastParsedData, onDataParsedCalls, errors, isProcessing, progress,
                   fakeProgressInterval, intervals>>
    /\ UNCHANGED otherVars

\* loadImage or loadTemplateImage rejected with the error event of the image
LoadFails ==
    /\ pc \in {"awaitImage", "awaitChangeTemplate", "awaitHeadersTemplate"}
    /\ Catch("undefined")
    /\ UNCHANGED <<image, changeMatch, headersMatch, pending, cropped, extractedData,
                   faults, lastParsedData, onDataParsedCalls>>
    /\ UNCHANGED otherVars

\* loadTemplateImage('./change.jpg') resolved; line 217
ChangeTemplateLoaded ==
    /\ pc = "awaitChangeTemplate"
    /\ pc' = "awaitHeadersTemplate"
    /\ UNCHANGED <<image, changeMatch, headersMatch, pending, cropped, extractedData,
                   faults, lastParsedData, onDataParsedCalls, errors, isProcessing,
                   processingStage, progress, fakeProgressInterval, intervals>>
    /\ UNCHANGED otherVars

\* loadTemplateImage('./headers.jpg') resolved; lines 218-227
HeadersTemplateLoaded ==
    /\ pc = "awaitHeadersTemplate"
    /\ processingStage' = "Finding template matches..."
    /\ pc' = "awaitChangeMatch"
    /\ UNCHANGED <<image, changeMatch, headersMatch, pending, cropped, extractedData,
                   faults, lastParsedData, onDataParsedCalls, errors, isProcessing,
                   progress, fakeProgressInterval, intervals>>
    /\ UNCHANGED otherVars

\* the search for the change template resolved; line 228 starts the second
ChangeMatchFound ==
    /\ pc = "awaitChangeMatch"
    /\ changeMatch' \in SearchOutcomes(image, TemplateSizes.change, ChangeCandidates)
    /\ pc' = "awaitHeadersMatch"
    /\ UNCHANGED <<image, headersMatch, pending, cropped, extractedData, faults,
                   lastParsedData, onDataParsedCalls, errors, isProcessing,
                   processingStage, progress, fakeProgressInterval, intervals>>
    /\ UNCHANGED otherVars

\* the search for the headers template resolved; lines 230-251, up to the
\* await of the first ocrRegion
HeadersMatchFound ==
    /\ pc = "awaitHeadersMatch"
    /\ \E m \in SearchOutcomes(image, TemplateSizes.headers, HeadersCandidates) :
          /\ headersMatch' = m
          /\ IF CalibrationFails(changeMatch, m)
             THEN /\ errors' = Append(errors, NoTemplateMessage)
                  /\ Finally
                  /\ pc' = "done"
                  /\ UNCHANGED <<pending, cropped>>
             ELSE IF changeMatch = NoMatch \/ m = NoMatch
             THEN \* calculateScales reads scaleX of null: a TypeError
                  /\ Catch("Cannot read properties of null (reading 'scaleX')")
                  /\ UNCHANGED <<pending, cropped>>
             ELSE /\ processingStage' = "Extracting data from regions..."
                  /\ cropped' = cropped \cup {RunRegions(image, changeMatch, m)[1]}
                  /\ pending' = 1
                  /\ pc' = "awaitOcr"
                  /\ UNCHANGED <<errors, isProcessing, progress, fakeProgressInterval, intervals>>
    /\ UNCHANGED <<image, changeMatch, extractedData, faults, lastParsedData,
                   onDataParsedCalls>>
    /\ UNCHANGED otherVars

\* the awaited ocrRegion resolved (a null blob resolves it with '', which is
\* what an illegible region trims to); lines 253-285, up to the next await
OcrResolves ==
    /\ pc = "awaitOcr"
    /\ LET regions == RunRegions(image, changeMatch, headersMatch)
           region == regions[pending]
           next == NextExtracted(regions, pending, image)
       IN  \E text \in {CleanText(region)}
                       \cup (IF faults < MaxFaults
                             THEN FaultTexts \cup MisreadTexts(region) ELSE {}) :
              LET data == [n \in DOMAIN extractedData \cup {region.name} |->
                              IF n = region.name THEN trim(text) ELSE extractedData[n]]
              IN  /\ faults' = IF text = CleanText(region) THEN faults ELSE faults + 1
                  /\ extractedData' = data
                  /\ IF next # 0
                     THEN /\ cropped' = cropped \cup {regions[next]}
                          /\ pending' = next
                          /\ UNCHANGED <<pc, lastParsedData, onDataParsedCalls, errors,
                                         isProcessing, processingStage, progress,
                                         fakeProgressInterval, intervals>>
                     ELSE /\ lastParsedData' = parseExtractedData(data)
                          /\ onDataParsedCalls' = onDataParsedCalls + 1
                          /\ \E handlerThrows \in BOOLEAN :
                                errors' = IF handlerThrows
                                          THEN Append(errors, FailedMessage("onDataParsed"))
                                          ELSE errors
                          /\ Finally
                          /\ pc' = "done"
                          /\ pending' = 0
                          /\ UNCHANGED cropped
    /\ UNCHANGED <<image, changeMatch, headersMatch>>
    /\ UNCHANGED otherVars

\* Tesseract.recognize rejected inside the toBlob callback of ocrRegion
\* (lines 663-670): the promise of ocrRegion is never settled
OcrRejects ==
    /\ pc = "awaitOcr"
    /\ faults < MaxFaults
    /\ faults' = faults + 1
    /\ pc' = "ocrNeverSettles"
    /\ UNCHANGED <<image, changeMatch, headersMatch, pending, cropped, extractedData,
                   lastParsedData, onDataParsedCalls, errors, isProcessing,
                   processingStage, progress, fakeProgressInterval, intervals>>
    /\ UNCHANGED otherVars

Next ==
    \/ SelectNoFile
    \/ SelectNonImage
    \/ SelectImage
    \/ Tick
    \/ OpenCVReady
    \/ ImageLoaded
    \/ LoadFails
    \/ ChangeTemplateLoaded
    \/ HeadersTemplateLoaded
    \/ ChangeMatchFound
    \/ HeadersMatchFound
    \/ OcrResolves
    \/ OcrRejects

Spec == Init /\ [][Next]_vars

\* calls of handleFileSelect one after another, with every call of the
\* interval callback followed, in runs where every OCR result is the clean
\* text of its region and no recognition rejects (the fault budget is spent
\* from the start)
ProgressInit ==
    /\ pc = "idle"
    /\ image = [width |-> 0, height |-> 0]
    /\ changeMatch = Unset
    /\ headersMatch = Unset
    /\ pending = 0
    /\ cropped = {}
    /\ extractedData = EmptyMap
    /\ faults = MaxFaults
    /\ lastParsedData = NoData
    /\ onDataParsedCalls = 0
    /\ errors = << >>
    /\ isProcessing = FALSE
    /\ processingStage = ""
    /\ progress = 0
    /\ fakeProgressInterval = NoInterval
    /\ intervals = {}
    /\ SkillOff
    /\ TierOff
    /\ SearchOff
    /\ FnOff

\* lines 751-753: no call of handleFileSelect is in flight and the button
\* is enabled; the file dialog is opened for another call, whose locals are
\* fresh.  lastParsedData and the progress state are the component's and
\* stay.
OpenDialog ==
    /\ pc \in {"done", "noFile"}
    /\ ~isProcessing
    /\ pc' = "idle"
    /\ image' = [width |-> 0, height |-> 0]
    /\ changeMatch' = Unset
    /\ headersMatch' = Unset
    /\ pending' = 0
    /\ cropped' = {}
    /\ extractedData' = EmptyMap
    /\ onDataParsedCalls' = 0
    /\ errors' = << >>
    /\ UNCHANGED <<faults, lastParsedData, isProcessing, processingStage, progress,
                   fakeProgressInterval, intervals>>
    /\ UNCHANGED otherVars

ProgressNext ==
    \/ OpenDialog
    \/ SelectNoFile
    \/ SelectNonImage
    \/ SelectImage
    \/ IntervalCallback
    \/ OpenCVReady
    \/ ImageLoaded
    \/ LoadFails
    \/ ChangeTemplateLoaded
    \/ HeadersTemplateLoaded
    \/ ChangeMatchFound
    \/ HeadersMatchFound
    \/ OcrResolves

SpecProgress == ProgressInit /\ [][ProgressNext]_vars

-----------------------------------------------------------------------------
(* findMatchingUma, one call on a roster, an outfit text and a name text    *)

\* null of findMatchingUma
NoUma == << >>

\* the positions <<character, outfit>> of the roster whose outfit name passes
\* fuzzyMatch with the text, and the characters whose English name does
OutfitHits(roster, outfit) ==
    {h \in UNION {{<<c, o>> : o \in 1..Len(roster[c].outfits)} : c \in 1..Len(roster)} :
        fuzzyMatch(roster[h[1]].outfits[h[2]].name, outfit)}
NameHits(roster, name) ==
    {c \in 1..Len(roster) : fuzzyMatch(roster[c].name[2], name)}

\* a variant of findMatchingUma that tries the character name first
findMatchingUma_NameFirst(roster, outfit, name) ==
    LET oh == OutfitHits(roster, outfit)
        nh == NameHits(roster, name)
    IN  IF name # << >> /\ trim(name) # << >> /\ nh # {}
        THEN roster[CHOOSE c \in nh : \A d \in nh : c <= d].outfits[1].id
        ELSE IF outfit # << >> /\ trim(outfit) # << >> /\ oh # {}
        THEN LET h == CHOOSE a \in oh : \A b \in oh :
                         a[1] < b[1] \/ (a[1] = b[1] /\ a[2] <= b[2])
             IN  roster[h[1]].outfits[h[2]].id
        ELSE NoUma

\* lines 694-721: the two nested loops return at the first outfit that
\* matches, the name loop at the first character that matches
findMatchingUma(roster, outfit, name) ==
    LET oh == OutfitHits(roster, outfit)
        nh == NameHits(roster, name)
    IN  IF outfit # << >> /\ trim(outfit) # << >> /\ oh # {}
        THEN LET h == CHOOSE a \in oh : \A b \in oh :
                         a[1] < b[1] \/ (a[1] = b[1] /\ a[2] <= b[2])
             IN  roster[h[1]].outfits[h[2]].id
        ELSE IF name # << >> /\ trim(name) # << >> /\ nh # {}
        THEN roster[CHOOSE c \in nh : \A d \in nh : c <= d].outfits[1].id
        ELSE NoUma

\* an entry of umas.json: name is <<Japanese, English>>, outfits are in the
\* order Object.entries yields them
Uma(ja, en, outfits) == [name |-> <<ja, en>>, outfits |-> outfits]
Outfit(id, name) == [id |-> id, name |-> name]

\* rosters of two characters in the order Object.entries yields them
Rosters ==
    { << Uma(<<"り">>, <<"U","m","a">>,
             << Outfit(<<"1","0","0","1","0","1">>, <<"[","A","b","]">>),
                Outfit(<<"1","0","0","1","0","2">>, <<"a","b","c","d">>) >>),
         Uma(<<"ん">>, <<"U","m","b">>,
             << Outfit(<<"1","0","0","2","0","1">>, <<"[","C","d","]">>) >>) >>,
      << Uma(<<"ん">>, <<"U","m","b">>,
             << Outfit(<<"1","0","0","1","0","1">>, <<"[","C","d","]">>),
                Outfit(<<"1","0","0","1","0","2">>, <<"[","A","b","]">>) >>),
         Uma(<<"り">>, <<"U","m","a">>,
             << Outfit(<<"1","0","0","2","0","1">>, <<"[","A","b","]">>) >>) >> }

\* recognised outfit texts: nothing, white space, an outfit name as printed,
\* brackets alone, a name one letter off, part of a name, and no name at all
OutfitTexts ==
    { << >>, <<" ">>, <<"[","A","b","]">>, <<"[","]">>, <<"a","b","c","e">>,
      <<"C","d">>, <<"z","z">> }

\* recognised name texts, likewise
NameTexts ==
    { << >>, <<" ">>, <<"U","m","a">>, <<"U","m","b">>, <<"U","m">>, <<"!">>,
      <<"z","z">> }

UmaInit ==
    /\ fnArgs \in [umas : Rosters, outfit : OutfitTexts, name : NameTexts]
    /\ fnResult = NoResult
    /\ fnPc = "in"
    /\ SkillOff
    /\ TierOff
    /\ RunOff
    /\ SearchOff

ApplyFindMatchingUma ==
    /\ fnPc = "in"
    /\ fnResult' = findMatchingUma(fnArgs.umas, fnArgs.outfit, fnArgs.name)
    /\ fnPc' = "findMatchingUma"
    /\ UNCHANGED <<fnArgs, skillVars, tierVars, runVars, searchVars>>

UmaNext == ApplyFindMatchingUma

SpecUma == UmaInit /\ [][UmaNext]_vars

-----------------------------------------------------------------------------
(* getHighestAptitude and getStrategyFromAptitude, as lines 638-645 of      *)
(* convertParsedDataToHorseState call them on the four style aptitudes      *)

aptitudeOrder == <<"S", "A", "B", "C", "D", "E", "F", "G">>

\* aptitudeOrder.indexOf(aptitude), -1 when it is no element
AptitudeIndex(aptitude) ==
    IF \E k \in 1..Len(aptitudeOrder) : aptitudeOrder[k] = aptitude
    THEN (CHOOSE k \in 1..Len(aptitudeOrder) : aptitudeOrder[k] = aptitude) - 1
    ELSE -1

\* the for loop of lines 668-674 from position k on:
\* <<highest, highestIndex>>
RECURSIVE HighestFrom(_, _, _, _)
HighestFrom(aptitudes, k, highest, highestIndex) ==
    IF k > Len(aptitudes) THEN <<highest, highestIndex>>
    ELSE LET index == AptitudeIndex(aptitudes[k])
         IN  IF index # -1 /\ index < highestIndex
             THEN HighestFrom(aptitudes, k + 1, aptitudes[k], index)
             ELSE HighestFrom(aptitudes, k + 1, highest, highestIndex)

getHighestAptitude(aptitudes) ==
    HighestFrom(aptitudes, 1, "G", Len(aptitudeOrder) - 1)[1]

\* a variant of getStrategyFromAptitude that looks at the axes from the end
getStrategyFromAptitude_EndFirst(styleAptitudes, highestStyle) ==
    IF styleAptitudes.end = highestStyle THEN "Oikomi"
    ELSE IF styleAptitudes.late = highestStyle THEN "Oikomi"
    ELSE IF styleAptitudes.pace = highestStyle THEN "Senkou"
    ELSE IF styleAptitudes.front = highestStyle THEN "Senkou"
    ELSE "Sasi"

getStrategyFromAptitude(styleAptitudes, highestStyle) ==
    IF styleAptitudes.front = highestStyle THEN "Senkou"
    ELSE IF styleAptitudes.pace = highestStyle THEN "Senkou"
    ELSE IF styleAptitudes.late = highestStyle THEN "Oikomi"
    ELSE IF styleAptitudes.end = highestStyle THEN "Oikomi"
    ELSE "Sasi"

\* what parseAptitude can put on a style axis: grades at both ends of the
\* scale and between, and an upper-case letter that is no grade
StyleLetters == {"S", "A", "G", "H"}

StrategyInit ==
    /\ fnArgs \in [front : StyleLetters, pace : StyleLetters,
                   late : StyleLetters, end : StyleLetters]
    /\ fnResult = NoResult
    /\ fnPc = "in"
    /\ SkillOff
    /\ TierOff
    /\ RunOff
    /\ SearchOff

\* lines 638, 642 and 645
DeriveStrategy ==
    /\ fnPc = "in"
    /\ LET styleAptitudes == <<fnArgs.front, fnArgs.pace, fnArgs.late, fnArgs.end>>
           highestStyle == getHighestAptitude(styleAptitudes)
       IN  fnResult' = [highestStyle |-> highestStyle,
                        strategy |-> getStrategyFromAptitude(fnArgs, highestStyle)]
    /\ fnPc' = "getStrategyFromAptitude"
    /\ UNCHANGED <<fnArgs, skillVars, tierVars, runVars, searchVars>>

StrategyNext == DeriveStrategy

SpecStrategy == StrategyInit /\ [][StrategyNext]_vars

-----------------------------------------------------------------------------
(* calculateSimilarity, applied to two strings (SpecSimilarity)             *)

SimilarityStrings == StringsUpTo({"a", "b", "c"}, MaxSimilarityLen)

SimilarityInit ==
    /\ fnArgs \in [str1 : SimilarityStrings, str2 : SimilarityStrings]
    /\ fnResult = NoResult
    /\ fnPc = "in"
    /\ SkillOff
    /\ TierOff
    /\ RunOff
    /\ SearchOff

\* one call of calculateSimilarity, and the call with the arguments exchanged
ApplyCalculateSimilarity ==
    /\ fnPc = "in"
    /\ fnResult' = [similarity |-> calculateSimilarity(fnArgs.str1, fnArgs.str2),
                    exchanged |-> calculateSimilarity(fnArgs.str2, fnArgs.str1)]
    /\ fnPc' = "calculateSimilarity"
    /\ UNCHANGED <<fnArgs, skillVars, tierVars, runVars, searchVars>>

SimilarityNext == ApplyCalculateSimilarity

SpecSimilarity == SimilarityInit /\ [][SimilarityNext]_vars

\* the Levenshtein edit distance by its defining recursion: the fewest
\* insertions, deletions and substitutions of one character that turn a into b
RECURSIVE lev(_, _)
lev(a, b) ==
    IF Len(a) = 0 THEN Len(b)
    ELSE IF Len(b) = 0 THEN Len(a)
    ELSE LET ta == Tail(a)
             tb == Tail(b)
             substitute == lev(ta, tb) + (IF Head(a) = Head(b) THEN 0 ELSE 1)
             delete == lev(ta, b) + 1
             insert == lev(a, tb) + 1
             least == IF delete < insert THEN delete ELSE insert
         IN  IF substitute < least THEN substitute ELSE least

MaxLength(a, b) == IF Len(a) > Len(b) THEN Len(a) ELSE Len(b)

\* is p the double nearest to the number it stands for without rounding?
IsNearest(p) == p.error = RoundErr(p.den, p.value, 0)

\* C30: for all strings a and b, calculateSimilarity(a, b) equals
\* 1 - lev(a, b) / max(|a|, |b|) (it is the double nearest to that number),
\* where lev is the standard Levenshtein edit distance as levenshteinDistance
\* computes it, and equals 1 when both are empty; it is symmetric in its
\* arguments, lies in [0, 1], and equals 1 only when a = b.
C30_SimilarityIsNormalisedDistance ==
    fnPc = "calculateSimilarity" =>
        LET a == fnArgs.str1
            b == fnArgs.str2
        IN  /\ levenshteinDistance(a, b) = lev(a, b)
            /\ IF a = << >> /\ b = << >>
               THEN DEq(fnResult.similarity, Exact(10, 10))
               ELSE /\ RatEQ(Nominal(fnResult.similarity),
                             RatSub(One, Rat(lev(a, b), MaxLength(a, b))))
                    /\ IsNearest(fnResult.similarity)
            /\ DEq(fnResult.similarity, fnResult.exchanged)
            /\ ~DLess(fnResult.similarity, Exact(0, 10))
            /\ ~DLess(Exact(10, 10), fnResult.similarity)
            /\ DEq(fnResult.similarity, Exact(10, 10)) => a = b

\* two strings of different lengths, the shorter one first, that take more
\* than insertions to turn one into the other: the similarity is strictly
\* between 0 and 1
C30_Witness ==
    /\ fnPc = "calculateSimilarity"
    /\ Len(fnArgs.str1) < Len(fnArgs.str2)
    /\ Len(fnArgs.str1) > 0
    /\ DLess(Exact(0, 10), fnResult.similarity)
    /\ DLess(fnResult.similarity, Exact(10, 10))
    /\ fnResult.similarity.error # 0
    /\ lev(fnArgs.str1, fnArgs.str2) > Len(fnArgs.str2) - Len(fnArgs.str1)

-----------------------------------------------------------------------------
(* calculateScales, calculateOffset and generateSkillRegions, as lines      *)
(* 237-238 and 258 of handleFileSelect call them for one image              *)

\* the bottom edge of skill row j (the first row is row 0), in reference
\* coordinates
RowBottom(j) == startY + j * skillYInterval + skillHeight

\* image heights: one pixel below, at, and one pixel above the bottom edge of
\* the first two skill rows, and the heights of the screenshots of Images
GeomHeights ==
    {RowBottom(j) + d : j \in 0..1, d \in {-1, 0, 1}} \cup {640, 1100}

\* matches of the two anchors that lie exactly where one common shift of the
\* reference layout puts them: by (12, 7) at scale 1.0, by (3, 5) at scale 0.5
AlignedChange ==
    {TemplateMatch(864, 299, DInt(1), 90), TemplateMatch(429, 151, DHalf(DInt(1)), 90)}
AlignedHeaders ==
    {TemplateMatch(50, 411, DInt(1), 90), TemplateMatch(22, 207, DHalf(DInt(1)), 90)}

\* the high probe of a second step that follows a first step narrowing to the
\* middle range: 0.725 + (1.575 - 0.725) * 0.75, one unit in the last place
\* below the double nearest to 1.3625
MiddleHighProbe ==
    highScale(NarrowFrom(InitialMinScale, InitialMaxScale, 0, 90, 0)[1],
              NarrowFrom(InitialMinScale, InitialMaxScale, 0, 90, 0)[2])

\* the two anchors found at that scale
MiddleChange == {TemplateMatch(1161, 398, MiddleHighProbe, 90)}
MiddleHeaders == {TemplateMatch(52, 550, MiddleHighProbe, 90)}

GeomInit ==
    /\ fnArgs \in [imageHeight : GeomHeights,
                   changeMatch : ChangeCandidates \cup AlignedChange \cup MiddleChange,
                   headersMatch : HeadersCandidates \cup AlignedHeaders \cup MiddleHeaders]
    /\ fnResult = NoResult
    /\ fnPc = "in"
    /\ SkillOff
    /\ TierOff
    /\ RunOff
    /\ SearchOff

\* lines 237-238
Calibrate ==
    /\ fnPc = "in"
    /\ LET scales == calculateScales(fnArgs.changeMatch, fnArgs.headersMatch)
           offset == calculateOffset(fnArgs.changeMatch, fnArgs.headersMatch, scales)
       IN  fnResult' = [scales |-> scales, offset |-> offset]
    /\ fnPc' = "calculateOffset"
    /\ UNCHANGED <<fnArgs, skillVars, tierVars, runVars, searchVars>>

\* line 258
GenerateSkills ==
    /\ fnPc = "calculateOffset"
    /\ fnResult' = [scales |-> fnResult.scales,
                    offset |-> fnResult.offset,
                    skillRegions |-> generateSkillRegions(fnArgs.imageHeight,
                                                          fnResult.scales.scaleY,
                                                          fnResult.offset)]
    /\ fnPc' = "generateSkillRegions"
    /\ UNCHANGED <<fnArgs, skillVars, tierVars, runVars, searchVars>>

GeomNext == Calibrate \/ GenerateSkills

SpecGeom == GeomInit /\ [][GeomNext]_vars

-----------------------------------------------------------------------------
(* Claims about the extraction run (Spec) and the scale search (SpecSearch) *)

\* both searches have returned and at least one returned null
AnchorMissing ==
    /\ headersMatch # Unset
    /\ changeMatch = NoMatch \/ headersMatch = NoMatch

\* C1: when either anchor search (change, headers) returns no match, the run
\* fails as a whole: onError is called once, with the message that no template
\* match was found; no region is projected, cropped or sent to OCR, nothing is
\* extracted, and onDataParsed is never called.
C1_NoPartialCalibration ==
    AnchorMissing =>
        /\ pc = "done"
        /\ errors = << NoTemplateMessage >>
        /\ cropped = {}
        /\ pending = 0
        /\ extractedData = EmptyMap
        /\ lastParsedData = NoData
        /\ onDataParsedCalls = 0

\* a run in which the change anchor was found and the headers anchor was not
C1_Witness ==
    /\ pc = "done"
    /\ changeMatch \notin {Unset, NoMatch}
    /\ headersMatch = NoMatch
    /\ errors = << NoTemplateMessage >>

\* C2: the scale search returns no match whenever the best confidence seen
\* over the whole search is at or below 0.7.
C2_WeakMatchIsNoMatch ==
    (searchPc = "resolved" /\ 10 * bestConfidence <= 7 * ConfidenceUnit)
        => searchResult = NoMatch

\* the region whose recognition was rejected, once the run is stuck on it
OcrRejectedRegion == RunRegions(image, changeMatch, headersMatch)[pending]

\* C3: when the OCR of a region rejects, the text of that region is the empty
\* text (and the run goes on to deliver a record).  In the state
\* "ocrNeverSettles" the handler awaits a promise nothing can settle.
C3_OcrFailureReadsEmpty ==
    pc = "ocrNeverSettles" =>
        /\ OcrRejectedRegion.name \in DOMAIN extractedData
        /\ extractedData[OcrRejectedRegion.name] = << >>

\* the handler has returned, or awaits a promise that is never settled
RunEnded == pc \in {"done", "ocrNeverSettles"}

\* C4: a run on a selected file delivers exactly one outcome: one record
\* through onDataParsed or one failure through onError, never both and never
\* neither.
C4_ExactlyOneOutcome ==
    RunEnded => onDataParsedCalls + Len(errors) = 1

\* C5: a projected region, static or generated, that is not within the image
\* is dropped: it is not cropped or sent to OCR and its name is not a key of
\* the extracted-field map.
C5_OutOfBoundsDropped ==
    /\ \A r \in cropped : WithinBounds(r, image)
    /\ headersMatch \notin {Unset, NoMatch} /\ changeMatch \notin {Unset, NoMatch} =>
          LET regions == RunRegions(image, changeMatch, headersMatch)
          IN  \A k \in 1..Len(regions) :
                 regions[k].name \in DOMAIN extractedData
                    => WithinBounds(regions[k], image)

-----------------------------------------------------------------------------
(* Claims about field parsing (SpecParse)                                   *)

\* the positions of a text where three consecutive digits start
DigitRunStarts(text) ==
    {i \in 1..Len(text) :
        i + 2 <= Len(text) /\ \A j \in 0..2 : text[i + j] \in DigitSet}

\* the number written by the first run of three digits of the text, with the
\* fourth digit when the run has one
FirstDigitRunValue(text) ==
    LET i == CHOOSE a \in DigitRunStarts(text) : \A b \in DigitRunStarts(text) : a <= b
        d(k) == DigitValue[text[i + k]]
    IN  IF i + 3 <= Len(text) /\ text[i + 3] \in DigitSet
        THEN 1000 * d(0) + 100 * d(1) + 10 * d(2) + d(3)
        ELSE 100 * d(0) + 10 * d(1) + d(2)

\* C11: parseStat returns the integer value of the first run of 3 to 4
\* consecutive digits of the text (of a longer run, its first four digits),
\* and 0 when the text has no three consecutive digits; the result is within
\* 0..9999.
C11_ParseStatFirstRun ==
    fnPc = "parseStat" =>
        /\ fnResult \in 0..9999
        /\ IF DigitRunStarts(fnArgs.text) = {} THEN fnResult = 0
           ELSE fnResult = FirstDigitRunValue(fnArgs.text)

\* 'S 1012' was parsed to 1012
C11_Witness ==
    /\ fnPc = "parseStat"
    /\ fnArgs.text = <<"S", " ", "1", "0", "1", "2">>
    /\ fnResult = 1012

\* C12: parseAptitude returns the first upper-case letter of the text, and
\* 'G' when the text has no upper-case letter.
C12_ParseAptitudeFirstUpper ==
    fnPc = "parseAptitude" =>
        LET text == fnArgs.text
        IN  \/ /\ \A i \in 1..Len(text) : text[i] \notin UpperSet
               /\ fnResult = "G"
            \/ \E i \in 1..Len(text) :
                  /\ text[i] \in UpperSet
                  /\ \A j \in 1..(i - 1) : text[j] \notin UpperSet
                  /\ fnResult = text[i]

\* a text with two different upper-case letters after a lower-case one
C12_Witness ==
    /\ fnPc = "parseAptitude"
    /\ fnArgs.text = <<"g", "S", "A">>
    /\ fnResult = "S"

-----------------------------------------------------------------------------
(* Claims about the delivered record (Spec)                                 *)

Grades == {"S", "A", "B", "C", "D", "E", "F", "G"}

\* the ten aptitude values of a parsed record
AptitudeValues(parsed) ==
    {parsed.aptitudes.track.turf, parsed.aptitudes.track.dirt,
     parsed.aptitudes.distance.sprint, parsed.aptitudes.distance.mile,
     parsed.aptitudes.distance.medium, parsed.aptitudes.distance.long,
     parsed.aptitudes.style.front, parsed.aptitudes.style.pace,
     parsed.aptitudes.style.late, parsed.aptitudes.style.end}

\* C13: in every delivered record each of the ten aptitude values is one of
\* S, A, B, C, D, E, F, G, whatever the recognition returned.
C13_AptitudesAreGrades ==
    lastParsedData # NoData => AptitudeValues(lastParsedData) \subseteq Grades

-----------------------------------------------------------------------------
(* Claims about calibration and skill-region generation (SpecGeom)          *)

\* how many skill rows lie fully within an image of this height: rows whose
\* bottom edge does not pass the last pixel row
FullRows(imageHeight) ==
    Cardinality({j \in 0..(imageHeight \div skillYInterval) :
                    RowBottom(j) <= imageHeight})

\* C14: for an image height that fits exactly k full skill rows (first row at
\* y 864, row height 68, pitch 112) generateSkillRegions produces exactly 2k
\* regions, and a height one pixel short of fitting row k+1 produces no
\* region of that row.
C14_TwoRegionsPerFullRow ==
    fnPc = "generateSkillRegions" =>
        /\ Len(fnResult.skillRegions) = 2 * FullRows(fnArgs.imageHeight)
        /\ \A k \in 0..2 :
              fnArgs.imageHeight = RowBottom(k) - 1 =>
                  Len(fnResult.skillRegions) <= 2 * k

\* the left-column rectangle of skill row j in reference coordinates
ReferenceRow(j) ==
    DataRegion(SkillName(2 * j + 1), leftX, startY + j * skillYInterval,
               skillWidth, skillHeight, "skills")

\* C15: generation stops before the first row whose projected bottom edge
\* (after scale and offset) would exceed the image height: every generated
\* region has its projected y + height within the image height, and the next
\* row, the first one not generated, would exceed it.
C15_StopsAtProjectedBottom ==
    fnPc = "generateSkillRegions" =>
        LET regions == fnResult.skillRegions
            next == adjustRegion(ReferenceRow(Len(regions) \div 2),
                                 fnResult.scales, fnResult.offset)
        IN  /\ \A k \in 1..Len(regions) :
                  regions[k].y + regions[k].height <= fnArgs.imageHeight
            /\ next.y + next.height > fnArgs.imageHeight

Abs(v) == IF v < 0 THEN -v ELSE v

\* how far the transform maps a reference anchor from where its template was
\* detected, per axis, in units of 1/HalfUnit of a pixel (the roundings of
\* double arithmetic, below 10^-12 of a pixel, left aside)
AnchorError(pos, m, scales, offset) ==
    [x |-> pos.x * scales.scaleX.value + offset.x.value - HalfUnit * m.x,
     y |-> pos.y * scales.scaleY.value + offset.y.value - HalfUnit * m.y]

\* the offset a single match implies, match - anchor * scale, as the number
\* it is: nothing is rounded
ImpliedOffset(pos, m) ==
    [x |-> Double(HalfUnit * m.x - pos.x * m.scaleX.value, HalfUnit,
                  0 - pos.x * m.scaleX.error),
     y |-> Double(HalfUnit * m.y - pos.y * m.scaleY.value, HalfUnit,
                  0 - pos.y * m.scaleY.error)]

\* the two matches are consistent: the same scale, and implied offsets no
\* more than one pixel apart
MatchesAgree(cm, hm) ==
    LET co == ImpliedOffset(TEMPLATE_POSITIONS.change, cm)
        ho == ImpliedOffset(TEMPLATE_POSITIONS.headers, hm)
    IN  /\ cm.scaleX = hm.scaleX
        /\ cm.scaleY = hm.scaleY
        /\ Abs(co.x.value - ho.x.value) <= HalfUnit
        /\ Abs(co.y.value - ho.y.value) <= HalfUnit

\* both anchors are mapped no further than the given number of half pixels
\* from their detected locations
AnchorsMappedWithin(halfPixels) ==
    LET ce == AnchorError(TEMPLATE_POSITIONS.change, fnArgs.changeMatch,
                          fnResult.scales, fnResult.offset)
        he == AnchorError(TEMPLATE_POSITIONS.headers, fnArgs.headersMatch,
                          fnResult.scales, fnResult.offset)
    IN  \A e \in {ce.x, ce.y, he.x, he.y} : 2 * Abs(e) <= halfPixels * HalfUnit

\* C17 as stated: for any two anchor matches, the transform of calculateScales
\* and calculateOffset maps each template's reference anchor (change at
\* (852,292), headers at (38,404)) onto that template's detected location,
\* within rounding (here: within one pixel).
C17_AnchorsMapOntoMatches ==
    fnPc = "calculateOffset" => AnchorsMappedWithin(2)

\* C17, amended: when the two matches have the same scale and imply offsets
\* no more than one pixel apart, the transform maps each reference anchor
\* within half a pixel of its detected location.
C17_AgreeingAnchorsMapOntoMatches ==
    fnPc = "calculateOffset"
    /\ MatchesAgree(fnArgs.changeMatch, fnArgs.headersMatch)
        => AnchorsMappedWithin(1)

\* two agreeing matches whose implied offsets differ, so that the averaged
\* offset is the offset of neither
C17_Witness ==
    /\ fnPc = "calculateOffset"
    /\ MatchesAgree(fnArgs.changeMatch, fnArgs.headersMatch)
    /\ ImpliedOffset(TEMPLATE_POSITIONS.change, fnArgs.changeMatch)
          # ImpliedOffset(TEMPLATE_POSITIONS.headers, fnArgs.headersMatch)
    /\ fnArgs.changeMatch.scaleX # DInt(1)

\* the two matches report one scale and imply one common offset
CommonScaleAndOffset(cm, hm) ==
    /\ cm.scaleX = cm.scaleY
    /\ hm.scaleX = cm.scaleX
    /\ hm.scaleY = cm.scaleY
    /\ ImpliedOffset(TEMPLATE_POSITIONS.change, cm)
          = ImpliedOffset(TEMPLATE_POSITIONS.headers, hm)

\* C29: when both anchor matches report the same scale s and their locations
\* equal referenceAnchor * s + o for one common offset o, calibration yields
\* scaleX = scaleY = s and offset exactly o; and for any two matches of the
\* scale search the calibrated scaleX equals scaleY.  (The calibrated scales
\* and offset are doubles, compared as such with s and o.)
C29_CommonOffsetRecovered ==
    fnPc = "calculateOffset" =>
        LET cm == fnArgs.changeMatch
            o == ImpliedOffset(TEMPLATE_POSITIONS.change, cm)
        IN  /\ fnResult.scales.scaleX = fnResult.scales.scaleY
            /\ CommonScaleAndOffset(cm, fnArgs.headersMatch) =>
                  /\ fnResult.scales.scaleX = cm.scaleX
                  /\ fnResult.scales.scaleY = cm.scaleX
                  /\ fnResult.offset.x = o.x
                  /\ fnResult.offset.y = o.y

\* both anchors found at half scale, shifted by (3, 5): calibration returns
\* scale 0.5 and offset (3, 5)
C29_Witness ==
    /\ fnPc = "calculateOffset"
    /\ CommonScaleAndOffset(fnArgs.changeMatch, fnArgs.headersMatch)
    /\ fnArgs.changeMatch.scaleX = DHalf(DInt(1))
    /\ fnResult.scales = [scaleX |-> DHalf(DInt(1)), scaleY |-> DHalf(DInt(1))]
    /\ fnResult.offset = [x |-> DInt(3), y |-> DInt(5)]

-----------------------------------------------------------------------------
(* Claims about region projection in a run (Spec)                           *)

\* the k-th generated skill rectangle in reference coordinates: odd k in the
\* left column, even k in the right, two per row
ReferenceSkill(k) ==
    DataRegion(SkillName(k), IF k % 2 = 1 THEN leftX ELSE rightX,
               startY + ((k - 1) \div 2) * skillYInterval,
               skillWidth, skillHeight, "skills")

\* both anchors were found, so the run has a calibration transform
Calibrated ==
    changeMatch \notin {Unset, NoMatch} /\ headersMatch \notin {Unset, NoMatch}

\* round(value + error) for a double, by the half-open interval it names:
\* r - 1/2 <= value + error < r + 1/2
Rounds(value, error, r) ==
    LET lo == 2 * r * HalfUnit - HalfUnit
        hi == 2 * r * HalfUnit + HalfUnit
    IN  /\ 2 * value > lo \/ (2 * value = lo /\ error >= 0)
        /\ 2 * value < hi \/ (2 * value = hi /\ error < 0)

\* the rectangle is the projection of the reference rectangle:
\* x' = round(x*scaleX + offsetX), y' = round(y*scaleY + offsetY),
\* w' = round(w*scaleX), h' = round(h*scaleY)
IsProjection(rect, ref, scales, offset) ==
    /\ rect.name = ref.name
    /\ rect.type = ref.type
    /\ Rounds(ref.x * scales.scaleX.value + offset.x.value,
              DAdd(DTimes(ref.x, scales.scaleX), offset.x).error, rect.x)
    /\ Rounds(ref.y * scales.scaleY.value + offset.y.value,
              DAdd(DTimes(ref.y, scales.scaleY), offset.y).error, rect.y)
    /\ Rounds(ref.width * scales.scaleX.value,
              DTimes(ref.width, scales.scaleX).error, rect.width)
    /\ Rounds(ref.height * scales.scaleY.value,
              DTimes(ref.height, scales.scaleY).error, rect.height)

\* C16: every static region and every generated skill region is projected by
\* x' = round(x*scaleX + offsetX), y' = round(y*scaleY + offsetY),
\* w' = round(w*scaleX), h' = round(h*scaleY) of the run's calibration, so
\* generateSkillRegions yields the rectangle adjustRegion would yield for the
\* same reference rectangle; every rectangle cropped from the image is such a
\* projection, and when the run delivers a record every projected region
\* within the image has been cropped with exactly those bounds.
C16_RegionsAreProjections ==
    Calibrated =>
        LET scales == CalibrationOf(changeMatch, headersMatch).scales
            offset == CalibrationOf(changeMatch, headersMatch).offset
            generated == generateSkillRegions(image.height, scales.scaleY, offset)
            refs == DATA_REGIONS \o [k \in 1..Len(generated) |-> ReferenceSkill(k)]
            regions == RunRegions(image, changeMatch, headersMatch)
        IN  /\ Len(regions) = Len(refs)
            /\ \A k \in 1..Len(refs) :
                  /\ IsProjection(regions[k], refs[k], scales, offset)
                  /\ regions[k] = adjustRegion(refs[k], scales, offset)
            /\ \A r \in cropped : \E k \in 1..Len(refs) : r = regions[k]
            /\ lastParsedData # NoData =>
                  \A k \in 1..Len(refs) :
                     WithinBounds(regions[k], image) => regions[k] \in cropped

\* a record was delivered for which a generated skill region was cropped and
\* another one, projected beyond the image, was not
C16_Witness ==
    /\ Calibrated
    /\ lastParsedData # NoData
    /\ \E r \in cropped : r.type = "skills"
    /\ LET regions == RunRegions(image, changeMatch, headersMatch)
       IN  \E k \in 1..Len(regions) :
              regions[k].type = "skills" /\ regions[k] \notin cropped

-----------------------------------------------------------------------------
(* Claims about the skill lines of a delivered record (Spec)                *)

\* the names of the regions whose texts the while loop of lines 717-723
\* pushes, in the order it pushes them
RECURSIVE SkillSources(_, _)
SkillSources(data, skillIndex) ==
    IF SkillName(skillIndex) \notin DOMAIN data THEN << >>
    ELSE (IF trim(data[SkillName(skillIndex)]) # << >>
          THEN << SkillName(skillIndex) >> ELSE << >>)
         \o SkillSources(data, skillIndex + 1)

\* C18: the text matched against the original-unique partition (the line
\* findMatchingSkills takes for the unique slot) is always the text recognized
\* from skill_1, and the text of every other skill region is matched only
\* against the complementary partition, including when some skill regions
\* yield empty text or are dropped.
C18_UniqueSlotIsFirstRegion ==
    lastParsedData # NoData =>
        LET sources == SkillSources(extractedData, 1)
        IN  /\ Len(sources) = Len(lastParsedData.skills)
            /\ \A i \in 1..Len(sources) :
                  /\ lastParsedData.skills[i] = extractedData[sources[i]]
                  /\ IsUniqueSlot(i - 1) <=> sources[i] = SkillName(1)

\* the skill texts a record owes to the extracted regions: the trimmed text
\* of every skill region within the image, in region order, blank ones left out
RECURSIVE InBoundsSkillTexts(_, _, _)
InBoundsSkillTexts(regions, img, k) ==
    IF k > Len(regions) THEN << >>
    ELSE (IF /\ regions[k].type = "skills"
             /\ WithinBounds(regions[k], img)
             /\ regions[k].name \in DOMAIN extractedData
             /\ trim(extractedData[regions[k].name]) # << >>
          THEN << trim(extractedData[regions[k].name]) >> ELSE << >>)
         \o InBoundsSkillTexts(regions, img, k + 1)

\* C27: every skill region that lies within the image bounds and whose
\* recognized text is non-blank contributes its text to the record's skills
\* list, in region order, regardless of whether a lower-numbered skill region
\* was dropped as out of bounds.
C27_InBoundsSkillsDelivered ==
    lastParsedData # NoData =>
        lastParsedData.skills =
            InBoundsSkillTexts(RunRegions(image, changeMatch, headersMatch), image, 1)

\* no run in flight: no interval is set and the reference is null, progress
\* is 0, the label is empty
IdleIsQuiet ==
    ~isProcessing =>
        /\ intervals = {}
        /\ fakeProgressInterval = NoInterval
        /\ progress = 0
        /\ processingStage = ""

\* no more than one interval is set, and it is the one the reference holds
AtMostOneTimer ==
    /\ Cardinality(intervals) <= 1
    /\ intervals \subseteq {fakeProgressInterval}

\* C28: whenever no extraction run is in flight (isProcessing is false), the
\* fake-progress timer is not active, progress is 0 and the stage label is
\* empty; this holds after a successful run, after a calibration failure and
\* after a thrown error.  At most one fake-progress timer is ever active,
\* over any number of runs one after another, and within a run progress
\* never decreases and never exceeds 99.
C28_IdleIsQuietProgressCapped ==
    /\ [](IdleIsQuiet /\ AtMostOneTimer /\ progress \in 0..99)
    /\ [][(isProcessing /\ isProcessing') => progress' >= progress]_vars
    /\ [][intervals' # {} => isProcessing']_vars

\* a later run, started after a run that delivered its record, is in flight
\* with one interval set and progress at the cap of line 177
C28_Witness ==
    /\ pc = "awaitOcr"
    /\ lastParsedData # NoData
    /\ isProcessing
    /\ Cardinality(intervals) = 1
    /\ fakeProgressInterval \in intervals
    /\ progress = 99

\* a run that delivered its record has ended: no interval is set, progress
\* is back at 0 and the label is empty
C28_WitnessEnded ==
    /\ pc = "done"
    /\ lastParsedData # NoData
    /\ ~isProcessing
    /\ intervals = {}
    /\ progress = 0
    /\ processingStage = ""

-----------------------------------------------------------------------------
(* Claims about the narrowing decision (SpecNarrow) and the returned match  *)
(* (SpecSearch)                                                             *)

\* the three ranges a step can narrow [minScale, maxScale] to
LowRegion == <<fnArgs.minScale, DHalf(DAdd(fnArgs.minScale, fnArgs.maxScale))>>
HighRegion == <<DHalf(DAdd(fnArgs.minScale, fnArgs.maxScale)), fnArgs.maxScale>>
MidRegion ==
    <<DAdd(fnArgs.minScale, DQuarter(DSub(fnArgs.maxScale, fnArgs.minScale))),
      DAdd(fnArgs.minScale, DTimes(3, DQuarter(DSub(fnArgs.maxScale, fnArgs.minScale))))>>

\* the highest of the three probe confidences, and which probes attain it
HighestConfidence ==
    CHOOSE c \in {fnArgs.lowConfidence, fnArgs.midConfidence, fnArgs.highConfidence} :
        /\ c >= fnArgs.lowConfidence
        /\ c >= fnArgs.midConfidence
        /\ c >= fnArgs.highConfidence
LowIsHighest == fnArgs.lowConfidence = HighestConfidence
MidIsHighest == fnArgs.midConfidence = HighestConfidence
HighIsHighest == fnArgs.highConfidence = HighestConfidence
TiedForHighest ==
    Cardinality({p \in {"low", "mid", "high"} :
                    \/ p = "low" /\ LowIsHighest
                    \/ p = "mid" /\ MidIsHighest
                    \/ p = "high" /\ HighIsHighest}) >= 2

\* C19 as stated: the interval narrows toward the probe region with the
\* highest confidence, and whenever two or more of the three probe
\* confidences tie for the highest it narrows to the midpoint region
\* [quartile, three-quarter].
C19_TiesNarrowToMid ==
    fnPc = "NarrowScale" =>
        IF TiedForHighest THEN fnResult = MidRegion
        ELSE IF LowIsHighest THEN fnResult = LowRegion
        ELSE IF HighIsHighest THEN fnResult = HighRegion
        ELSE fnResult = MidRegion

\* C19, amended: the interval narrows to the region of a probe with the
\* highest confidence; among probes tied for the highest the quartile probe
\* comes first (range [min, midpoint]), then the three-quarter probe (range
\* [midpoint, max]); the midpoint region [quartile, three-quarter] is taken
\* only when the midpoint confidence is strictly the highest.
C19_TiesNarrowToLowThenHigh ==
    fnPc = "NarrowScale" =>
        IF LowIsHighest THEN fnResult = LowRegion
        ELSE IF HighIsHighest THEN fnResult = HighRegion
        ELSE /\ fnResult = MidRegion
             /\ fnArgs.midConfidence > fnArgs.lowConfidence
             /\ fnArgs.midConfidence > fnArgs.highConfidence

\* the midpoint and three-quarter probes tied for the highest confidence and
\* the step narrowed to the high range
C19_Witness ==
    /\ fnPc = "NarrowScale"
    /\ fnArgs.midConfidence = fnArgs.highConfidence
    /\ fnArgs.midConfidence > fnArgs.lowConfidence
    /\ fnResult = HighRegion
    /\ fnResult # MidRegion

\* C20: the match the scale search returns is the globally best probe seen
\* across all iterations, not the best of the final interval: its confidence
\* is the maximum over every probe evaluated, and its scale and location are
\* those of the first probe that attained that maximum (firstBest records
\* that probe as the search goes); no match is returned exactly when no probe
\* was evaluated.
C20_ReturnsFirstGlobalBest ==
    /\ bestMatch = firstBest
    /\ searchPc = "resolved" => searchResult = firstBest

\* every probe had the same confidence, and the match returned is the very
\* first probe, the quartile of the initial interval, which the final
\* interval no longer contains
C20_Witness ==
    /\ searchPc = "resolved"
    /\ searchResult # NoMatch
    /\ searchResult.confidence = 50
    /\ searchResult.scaleX
          = DAdd(InitialMinScale, DQuarter(DSub(InitialMaxScale, InitialMinScale)))
    /\ DLess(maxScale, searchResult.scaleX)

\* C21: for every confidence landscape the scale search terminates: it
\* performs exactly 10 iterations (of the three probes of a step), then
\* resolves its result exactly once and releases its image and template
\* buffers; it never runs an 11th iteration.
C21_SearchTerminates ==
    /\ [](/\ stepCount <= maxSteps
          /\ searchPc = "resolved" <=> matsDeleted
          /\ searchPc = "resolved" => stepCount = maxSteps)
    /\ [][/\ searchPc = "resolved" => UNCHANGED searchVars
          /\ stepCount' # stepCount => stepCount' = stepCount + 1 /\ searchPc' = "searching"
          /\ searchPc' # searchPc => stepCount = maxSteps]_vars
    /\ <>[](searchPc = "resolved")

\* the search resolved a match after its tenth iteration, buffers released
C21_Witness ==
    /\ searchPc = "resolved"
    /\ stepCount = maxSteps
    /\ matsDeleted
    /\ searchResult # NoMatch

\* round(length * scale) > limit: the product is at least limit + 1/2
RoundsAbove(length, scale, limit) ==
    ~DLess(DTimes(length, scale), Exact((2 * limit + 1) * (HalfUnit \div 2), HalfUnit))

\* the resized template is wider or taller than the image
TooLarge(scale) ==
    \/ RoundsAbove(searchTemplate.width, scale, searchImage.width)
    \/ RoundsAbove(searchTemplate.height, scale, searchImage.height)

\* the match lies in the image with the template resized to its scale
MatchFitsInside(m) ==
    /\ ~TooLarge(m.scaleX)
    /\ m.x >= 0
    /\ m.y >= 0
    /\ ~RoundsAbove(searchTemplate.width, m.scaleX, searchImage.width - m.x)
    /\ ~RoundsAbove(searchTemplate.height, m.scaleY, searchImage.height - m.y)

\* the three scales the next step probes
NextProbes ==
    {lowScale(minScale, maxScale), midScale(minScale, maxScale),
     highScale(minScale, maxScale)}

\* C22: a probe scale at which the resized template would be wider or taller
\* than the image is rejected: it yields confidence 0 and is not recorded as
\* the best match; so any match the search holds or returns has a scaled
\* template that fits inside the image, and a search in which every probe is
\* rejected returns no match.
C22_OversizedProbesRejected ==
    /\ \A scale \in NextProbes, c \in ConfidenceLevels, loc \in MatchLocations :
          TooLarge(scale) =>
              testScale(searchImage, searchTemplate, scale, c, loc, bestMatch,
                        bestConfidence) = <<0, bestMatch, bestConfidence>>
    /\ bestMatch # NoMatch => MatchFitsInside(bestMatch)
    /\ searchPc = "resolved" =>
          /\ searchResult # NoMatch => MatchFitsInside(searchResult)
          /\ TooLarge(SmallestProbe) => searchResult = NoMatch

\* a search over an image on which some probes are rejected and some are not
\* returned a match away from the origin
C22_Witness ==
    /\ searchPc = "resolved"
    /\ searchResult # NoMatch
    /\ TooLarge(lowScale(InitialMinScale, InitialMaxScale))
    /\ searchResult.x > 0

\* every probe of the search was rejected and no match was returned
C22_WitnessAllRejected ==
    /\ searchPc = "resolved"
    /\ TooLarge(SmallestProbe)
    /\ searchResult = NoMatch

\* the interval is well-formed and the scales of the next step lie strictly
\* inside it and strictly between 0.3 and 2.0
IntervalWellFormed ==
    /\ ~DLess(minScale, InitialMinScale)
    /\ DLess(minScale, maxScale)
    /\ ~DLess(InitialMaxScale, maxScale)
    /\ \A scale \in NextProbes :
          /\ DLess(InitialMinScale, scale)
          /\ DLess(scale, InitialMaxScale)
          /\ DLess(minScale, scale)
          /\ DLess(scale, maxScale)

\* 2^k * p, which no rounding changes
Doubled(k, p) == DTimes(2^k, p)

\* C26 as stated: throughout the scale search the interval stays well-formed:
\* after k iterations 0.3 <= minScale < maxScale <= 2.0 and maxScale -
\* minScale = 1.7 / 2^k (every branch exactly halves the interval), so every
\* scale the next iteration probes lies strictly between 0.3 and 2.0.
C26_IntervalHalves ==
    /\ IntervalWellFormed
    /\ DEq(Doubled(stepCount, DSub(maxScale, minScale)),
           Literal(17 * (HalfUnit \div 10), HalfUnit))

\* C26, amended: after k iterations 0.3 <= minScale < maxScale <= 2.0 and
\* maxScale - minScale is 1.7 / 2^k up to the rounding of the double
\* operations (it differs from 1.7 / 2^k by no more than 2^-51; a branch
\* halves the interval up to rounding, not exactly), and every scale the next
\* iteration probes lies strictly between 0.3 and 2.0.
C26_IntervalHalvesWithinRounding ==
    /\ IntervalWellFormed
    /\ (maxScale.value - minScale.value) * 2^stepCount = 17 * (HalfUnit \div 10)
    /\ Abs(maxScale.error - minScale.error) <= OddPart(HalfUnit) * 2^(ErrorBits - 51)

\* after the tenth iteration the interval lies strictly inside [0.3, 2.0], so
\* both of its ends have moved; it is 1.7 / 2^10 wide up to rounding, and
\* not exactly
C26_Witness ==
    /\ stepCount = maxSteps
    /\ DLess(InitialMinScale, minScale)
    /\ DLess(maxScale, InitialMaxScale)
    /\ (maxScale.value - minScale.value) * 2^maxSteps = 17 * (HalfUnit \div 10)
    /\ maxScale.error # minScale.error

-----------------------------------------------------------------------------
(* Claims about the skill resolver (SpecSkill)                              *)

\* the line findMatchingSkills has just passed to findMatchingSkill (blank
\* lines are not passed on); every earlier line was the latest one in an
\* earlier state
VisitedLines ==
    {k \in 1..Len(resolved) : k = Len(resolved) /\ trim(parsedSkills[k]) # <<>>}

\* the display names of the catalog: <<entry, name>> index pairs
NameIndex ==
    {<<e, n>> : e \in 1..Len(skillnames), n \in 1..2}

PoolOfSlot(k) ==
    {c \in NameIndex :
        IF k = 1 THEN StartsWith10(skillnames[c[1]].id)
                 ELSE ~StartsWith10(skillnames[c[1]].id)}

NameAt(c) == skillnames[c[1]].names[c[2]]

\* C6: the line in the primary slot (index 0) never resolves to an identifier
\* outside the original-unique partition (ids prefixed '10'), and a line in
\* any other slot never resolves to an identifier inside that partition.
C6_SlotPartition ==
    \A k \in 1..Len(resolved) :
        resolved[k] # NoSkill => (k = 1 <=> StartsWith10(resolved[k]))

\* one and the same line was resolved in the primary slot and in another
\* slot, to identifiers of the two partitions
C6_Witness ==
    /\ Len(resolved) = 2
    /\ parsedSkills[1] = parsedSkills[2]
    /\ resolved[1] # NoSkill
    /\ resolved[2] # NoSkill
    /\ resolved[1] # resolved[2]

\* the best tier-adjusted similarity over a set of display names
BestBy(cands, score) ==
    CHOOSE c \in cands :
        \A o \in cands :
            \/ DLess(score[o], score[c])
            \/ /\ DEq(score[o], score[c])
               /\ (c[1] < o[1] \/ (c[1] = o[1] /\ c[2] <= o[2]))

\* the tier-adjusted similarity of every display name of a set to a line
ScoresOf(cands, line) ==
    [c \in cands |-> AdjustedSimilarity(NameAt(c), line)]

\* line k resolved to display name c if its similarity exceeds the threshold
ResolvesTo(k, c, similarity) ==
    IF DLess(MatchThreshold, similarity)
    THEN resolved[k] = skillnames[c[1]].id
    ELSE resolved[k] = NoSkill

ResolvesToBestIn(pool, k) ==
    IF pool = {} THEN resolved[k] = NoSkill
    ELSE Only({Only({ResolvesTo(k, best, score[best]) : best \in {BestBy(pool, score)}}) :
                 score \in {ScoresOf(pool, parsedSkills[k])}})

ResolvesToBestOf(cands, k) ==
    Only({ResolvesToBestIn(pool, k) : pool \in {cands}})

\* C7, as claimed: each line resolves to the identifier of the display name
\* with the highest tier-adjusted similarity over every display name of the
\* slot's partition if that similarity exceeds 0.6, and to no match otherwise.
C7_BestOfPartition ==
    \A k \in VisitedLines : ResolvesToBestOf(PoolOfSlot(k), k)

\* C7, amended: only the display names of the partition that pass fuzzyMatch
\* (containment, or base similarity above 0.7) compete; the line resolves to
\* the one with the highest tier-adjusted similarity, the first in catalog
\* order on a tie, if that similarity exceeds 0.6, and to no match otherwise.
C7_BestOfFuzzyMatches ==
    \A k \in VisitedLines :
        ResolvesToBestOf({c \in PoolOfSlot(k) : fuzzyMatch(NameAt(c), parsedSkills[k])}, k)

\* a line was resolved among two display names of different entries that
\* both pass fuzzyMatch with different adjusted similarities
C7_Witness ==
    \E k \in VisitedLines :
        /\ resolved[k] # NoSkill
        /\ \E c, o \in PoolOfSlot(k) :
              /\ c[1] # o[1]
              /\ fuzzyMatch(NameAt(c), parsedSkills[k])
              /\ fuzzyMatch(NameAt(o), parsedSkills[k])
              /\ DLess(AdjustedSimilarity(NameAt(o), parsedSkills[k]),
                       AdjustedSimilarity(NameAt(c), parsedSkills[k]))
              /\ resolved[k] = skillnames[c[1]].id

\* C8: a line equal to a display name (either language) of a catalog entry,
\* in the slot whose partition contains the entry, has base similarity 1.0
\* and resolves to that entry's identifier.
C8_ExactNameResolves ==
    \A k \in VisitedLines :
        \A c \in PoolOfSlot(k) :
            parsedSkills[k] = NameAt(c) =>
                /\ DEq(calculateSimilarity(normalizeString(NameAt(c)),
                                           normalizeString(parsedSkills[k])),
                       Exact(10, 10))
                /\ resolved[k] = skillnames[c[1]].id

\* what line k of the input resolves to: nothing for a blank line, else the
\* resolver's answer for the line in its slot
LineResult(k) ==
    IF trim(parsedSkills[k]) = <<>> THEN NoSkill
    ELSE findMatchingSkill(parsedSkills[k], k = 1)

\* C23: findMatchingSkills returns the resolved identifiers in the order of
\* their input lines: the output is the input sequence with each line
\* replaced by its resolved identifier and every unmatched or blank line
\* omitted, so its length never exceeds the input length and duplicates are
\* kept.
C23_OutputInLineOrder ==
    /\ matchedSkills = SelectSeq([k \in 1..skillIdx |-> LineResult(k)],
                                 LAMBDA id : id # NoSkill)
    /\ Len(matchedSkills) <= Len(parsedSkills)
    /\ skillPc = "returned" => skillIdx = Len(parsedSkills)

\* three lines were given, one was omitted and the other two resolved to the
\* same identifier, which was returned twice
C23_Witness ==
    /\ skillPc = "returned"
    /\ Len(parsedSkills) = 3
    /\ Len(matchedSkills) = 2
    /\ matchedSkills[1] = matchedSkills[2]

-----------------------------------------------------------------------------
(* Claims about name/outfit resolution (SpecUma)                            *)

\* the positions <<character, outfit>> of the roster
OutfitPositions ==
    {g \in (1..Len(fnArgs.umas)) \X (1..2) : g[2] <= Len(fnArgs.umas[g[1]].outfits)}

OutfitAt(g) == fnArgs.umas[g[1]].outfits[g[2]]

\* the identifiers of the outfits whose name fuzzy-matches the outfit text
MatchingOutfitIds ==
    {OutfitAt(g).id : g \in {h \in OutfitPositions :
                                fuzzyMatch(OutfitAt(h).name, fnArgs.outfit)}}

\* the characters whose display name fuzzy-matches the name text
MatchingCharacters ==
    {c \in 1..Len(fnArgs.umas) : fuzzyMatch(fnArgs.umas[c].name[2], fnArgs.name)}

OutfitMatched == trim(fnArgs.outfit) # << >> /\ MatchingOutfitIds # {}

-----------------------------------------------------------------------------
(* Claims about strategy derivation (SpecStrategy)                          *)

\* the style axes in priority order with the strategy each stands for
StyleAxes ==
    << [grade |-> fnArgs.front, strategy |-> "Senkou"],
       [grade |-> fnArgs.pace, strategy |-> "Senkou"],
       [grade |-> fnArgs.late, strategy |-> "Oikomi"],
       [grade |-> fnArgs.end, strategy |-> "Oikomi"] >>

\* grade a is at least as good as grade b on the scale S > A > ... > G
GradeAtLeast(a, b) ==
    \E i, j \in 1..Len(aptitudeOrder) :
        aptitudeOrder[i] = a /\ aptitudeOrder[j] = b /\ i <= j

\* the axes that hold a grade of the scale, and those among them that hold
\* the best grade
GradedAxes == {k \in 1..4 : StyleAxes[k].grade \in Grades}
BestAxes ==
    {k \in GradedAxes :
        \A m \in GradedAxes : GradeAtLeast(StyleAxes[k].grade, StyleAxes[m].grade)}

\* C25: strategy derivation takes the best grade among the four style
\* aptitudes and returns the strategy of the first axis, in the order front,
\* pace, late, end, whose grade equals it (front or pace give Senkou, late or
\* end give Oikomi); the default Sasi is returned exactly when no style axis
\* holds a grade of the S..G scale.
C25_FirstBestAxis ==
    fnPc = "getStrategyFromAptitude" =>
        /\ fnResult.strategy = "Sasi" <=> GradedAxes = {}
        /\ GradedAxes # {} =>
              LET first == CHOOSE k \in BestAxes : \A m \in BestAxes : k <= m
              IN  /\ fnResult.highestStyle = StyleAxes[first].grade
                  /\ fnResult.strategy = StyleAxes[first].strategy

\* pace and late tie for the best grade, front holds a letter that is no
\* grade, and the strategy is that of pace
C25_Witness ==
    /\ fnPc = "getStrategyFromAptitude"
    /\ fnArgs.front \notin Grades
    /\ fnArgs.pace = fnArgs.late
    /\ BestAxes = {2, 3}
    /\ fnResult.strategy = "Senkou"

-----------------------------------------------------------------------------
(* Claims about the tier bonus (SpecTier)                                   *)

\* the two strings are the same but for position p, where one has the
\* double circle and the other the single circle
DifferInCircleAt(a, b, p) ==
    /\ Len(a) = Len(b)
    /\ p \in 1..Len(a)
    /\ {a[p], b[p]} = {"◎", "○"}
    /\ \A q \in 1..Len(a) : q # p => a[q] = b[q]

DifferOnlyInCircle(a, b) ==
    \E p \in 1..Len(a) : DifferInCircleAt(a, b, p)

\* a glyph of /[◎○×©®™]/ stands before the position of the circle
GlyphBeforeCircle(a, b) ==
    \E p \in 1..Len(a) :
        /\ DifferInCircleAt(a, b, p)
        /\ \E q \in 1..(p - 1) : a[q] \in {"◎", "○", "×", "©", "®", "TM"}

\* C9, as claimed: for two strings identical except that one carries ◎ and
\* the other ○, the similarity after the tier adjustment is strictly higher
\* than the base similarity.
C9_CircleScoresHigher ==
    (tierPc = "scored" /\ DifferOnlyInCircle(tierName, tierLine))
        => DLess(tierBase, tierResult)

\* C9, amended: for such strings the base similarity is 1.0.  When the
\* circle is the first tier glyph of the strings the similarity after the
\* adjustment is min(1.0, base + 0.3) = 1.0, equal to the base and not
\* higher; when another tier glyph stands before the circle, both tiers are
\* that glyph and the similarity after the adjustment is base + 0.5 = 1.5.
C9_CircleScoresByFirstGlyph ==
    (tierPc = "scored" /\ DifferOnlyInCircle(tierName, tierLine))
        => /\ DEq(tierBase, Exact(10, 10))
           /\ IF GlyphBeforeCircle(tierName, tierLine)
              THEN DEq(tierResult, Exact(15, 10))
              ELSE DEq(tierResult, Exact(10, 10))

\* a pair with letters whose circle follows a copyright sign: 1.0 before the
\* adjustment, 1.5 after it
C9_Witness ==
    /\ tierPc = "scored"
    /\ DifferOnlyInCircle(tierName, tierLine)
    /\ Len(normalizeString(tierName)) > 0
    /\ "©" \in Range(tierName)
    /\ DEq(tierBase, Exact(10, 10))
    /\ DEq(tierResult, Exact(15, 10))

\* the compatibility set of the claim: the circles with each other and with
\* the copyright, registered and trademark signs
ClaimedCompatible(a, b) ==
    /\ a # b
    /\ \/ a \in {"◎", "○"} /\ b \in {"◎", "○", "©", "®", "TM"}
       \/ b \in {"◎", "○"} /\ a \in {"©", "®", "TM"}

\* the double is within 2^-51 of the number it stands for without rounding
NearNominal(p) ==
    /\ p.error <= OddPart(p.den) * 2^(ErrorBits - 51)
    /\ 0 - p.error <= OddPart(p.den) * 2^(ErrorBits - 51)

\* the three cases, for the numbers the doubles stand for; the result is
\* that number up to the rounding of the one addition or subtraction
TierCasesHold ==
    LET carries == Range(tierName) \cap {"◎", "○", "×"} # {}
        skillTier == extractTierSymbol(tierName)
        parsedTier == extractTierSymbol(tierLine)
        base == Nominal(tierBase)
        result == Nominal(tierResult)
    IN  IF carries /\ skillTier # NoTier /\ parsedTier # NoTier
        THEN /\ NearNominal(tierResult)
             /\ IF skillTier = parsedTier
                THEN RatEQ(result, RatAdd(base, Rat(1, 2)))
                ELSE IF ClaimedCompatible(skillTier, parsedTier)
                THEN RatEQ(result, RatMin(One, RatAdd(base, Rat(3, 10))))
                ELSE RatEQ(result, RatMax(Zero, RatSub(base, Rat(1, 5))))
        ELSE DEq(tierResult, tierBase)

CrossAgainstDoubleCircle ==
    /\ tierPc = "scored"
    /\ extractTierSymbol(tierLine) = "×"
    /\ extractTierSymbol(tierName) = "◎"

\* C10, as claimed: the three cases (equal tiers: base + 0.5; compatible
\* tiers: min(1.0, base + 0.3); any other pair: max(0.0, base - 0.2); else
\* unchanged), and a line with × against a candidate with ◎ scores lower
\* than the base and never below 0.
C10_TierCases ==
    /\ tierPc = "scored" => TierCasesHold
    /\ CrossAgainstDoubleCircle =>
          (DLess(tierResult, tierBase) /\ ~DLess(tierResult, Exact(0, 10)))

\* C10, amended: the three cases as claimed; a line with × against a
\* candidate with ◎ scores no higher than the base, lower whenever the base
\* is above 0, and never below 0.
C10_TierCasesFloored ==
    /\ tierPc = "scored" => TierCasesHold
    /\ CrossAgainstDoubleCircle =>
          /\ ~DLess(tierBase, tierResult)
          /\ DLess(Exact(0, 10), tierBase) => DLess(tierResult, tierBase)
          /\ ~DLess(tierResult, Exact(0, 10))

\* a × line scored against a ◎ candidate with a positive base: base - 0.2
C10_Witness ==
    /\ CrossAgainstDoubleCircle
    /\ DLess(Exact(0, 10), tierBase)
    /\ DLess(Exact(0, 10), tierResult)
    /\ RatEQ(Nominal(tierResult), RatSub(Nominal(tierBase), Rat(1, 5)))

====
